---- MODULE Spec2Model ----
(***************************************************************************)
(* PyShell (src/shell.py): the parser, the builtins, the executor and the  *)
(* shell loop, as a state machine.                                         *)
(*                                                                         *)
(* A string of the program is a sequence of one-character strings; a       *)
(* message the program prints from a literal is kept as one element.       *)
(***************************************************************************)
EXTENDS Integers, Sequences, FiniteSets, TLC

(***************************************************************************)
(* Characters and strings                                                  *)
(***************************************************************************)
Lower == {"a","b","c","d","e","f","g","h","i","j","k","l","m",
          "n","o","p","q","r","s","t","u","v","w","x","y","z"}
Upper == {"A","B","C","D","E","F","G","H","I","J","K","L","M",
          "N","O","P","Q","R","S","T","U","V","W","X","Y","Z"}
Digits == {"0","1","2","3","4","5","6","7","8","9"}
DigitSeq == <<"0","1","2","3","4","5","6","7","8","9">>

\* str.strip() with no argument strips these.
Whitespace == {" ", "\t", "\n", "\r"}
\* The quote characters of the two splitters and of shlex.
Quotes == {"\"", "'"}
\* [A-Za-z_] and [A-Za-z0-9_] of Environment.expand's pattern.
NameStart == Lower \cup Upper \cup {"_"}
NameChar == NameStart \cup Digits

\* None, and the empty string: the code reads an optional string only by
\* its truth value (shell.py lines 377 and 384), where the two agree.
None == <<>>

RECURSIVE lstrip(_)
lstrip(s) == IF s # <<>> /\ Head(s) \in Whitespace THEN lstrip(Tail(s)) ELSE s

RECURSIVE rstrip(_)
rstrip(s) ==
  IF s # <<>> /\ s[Len(s)] \in Whitespace THEN rstrip(SubSeq(s, 1, Len(s) - 1)) ELSE s

strip(s) == rstrip(lstrip(s))

\* str.strip(chars)
RECURSIVE strip_chars(_, _)
strip_chars(s, chars) ==
  IF s # <<>> /\ Head(s) \in chars THEN strip_chars(Tail(s), chars)
  ELSE IF s # <<>> /\ s[Len(s)] \in chars THEN strip_chars(SubSeq(s, 1, Len(s) - 1), chars)
  ELSE s

startswith(s, prefix) == Len(s) >= Len(prefix) /\ SubSeq(s, 1, Len(prefix)) = prefix

\* Least index i >= from with s[i] = ch, or 0.
RECURSIVE IndexFrom(_, _, _)
IndexFrom(s, ch, from) ==
  IF from > Len(s) THEN 0
  ELSE IF s[from] = ch THEN from
  ELSE IndexFrom(s, ch, from + 1)

\* sep.join(words)
RECURSIVE join(_, _)
join(sep, words) ==
  IF words = <<>> THEN <<>>
  ELSE IF Len(words) = 1 THEN words[1]
  ELSE words[1] \o sep \o join(sep, Tail(words))

\* str(n) of an int
RECURSIVE NatToStr(_)
NatToStr(n) == IF n < 10 THEN <<DigitSeq[n + 1]>> ELSE NatToStr(n \div 10) \o <<DigitSeq[(n % 10) + 1]>>

IntToStr(n) == IF n < 0 THEN <<"-">> \o NatToStr(0 - n) ELSE NatToStr(n)

DigitValue(ch) == CHOOSE d \in 0..9 : DigitSeq[d + 1] = ch

RECURSIVE DigitsToNat(_, _)
DigitsToNat(s, acc) == IF s = <<>> THEN acc ELSE DigitsToNat(Tail(s), acc * 10 + DigitValue(Head(s)))

\* int(text): [ok, value]; not ok is ValueError.  Surrounding whitespace and
\* one sign are accepted, as int() accepts them.
IntOfDigits(body, negative) ==
  IF body = <<>> \/ \E i \in 1..Len(body) : body[i] \notin Digits
    THEN [ok |-> FALSE, value |-> 0]
    ELSE [ok |-> TRUE, value |-> IF negative THEN 0 - DigitsToNat(body, 0) ELSE DigitsToNat(body, 0)]

IntOfStripped(t) ==
  IF t # <<>> /\ Head(t) \in {"-", "+"} THEN IntOfDigits(Tail(t), Head(t) = "-")
  ELSE IntOfDigits(t, FALSE)

int(text) == IntOfStripped(strip(text))

(***************************************************************************)
(* Parser: the two quote-aware splitters                                   *)
(***************************************************************************)
\* The scanner of _split_by_semicolon and _split_by_pipe, which differ in the
\* delimiter alone.  quote_char = "" stands for in_quotes = False.
\* SplitScan with a quote closed by either quote character, not only by the
\* one that opened it.
RECURSIVE SplitScan_any_close(_, _, _, _, _, _)
SplitScan_any_close(text, delim, i, parts, current, quote_char) ==
  IF i > Len(text)
    THEN (IF current # <<>> THEN Append(parts, current) ELSE parts)
  ELSE IF text[i] \in Quotes /\ quote_char = ""
    THEN SplitScan_any_close(text, delim, i + 1, parts, Append(current, text[i]), text[i])
  ELSE IF text[i] \in Quotes /\ quote_char # ""
    THEN SplitScan_any_close(text, delim, i + 1, parts, Append(current, text[i]), "")
  ELSE IF text[i] = delim /\ quote_char = ""
    THEN SplitScan_any_close(text, delim, i + 1, Append(parts, current), <<>>, "")
  ELSE SplitScan_any_close(text, delim, i + 1, parts, Append(current, text[i]), quote_char)

RECURSIVE SplitScan(_, _, _, _, _, _)
SplitScan(text, delim, i, parts, current, quote_char) ==
  IF i > Len(text)
    THEN (IF current # <<>> THEN Append(parts, current) ELSE parts)
    ELSE LET char == text[i] IN
      IF char \in Quotes /\ quote_char = ""
        THEN SplitScan(text, delim, i + 1, parts, Append(current, char), char)
      ELSE IF char = quote_char /\ quote_char # ""
        THEN SplitScan(text, delim, i + 1, parts, Append(current, char), "")
      ELSE IF char = delim /\ quote_char = ""
        THEN SplitScan(text, delim, i + 1, Append(parts, current), <<>>, "")
      ELSE SplitScan(text, delim, i + 1, parts, Append(current, char), quote_char)

split_by_semicolon(text) == SplitScan(text, ";", 1, <<>>, <<>>, "")

split_by_pipe(text) == SplitScan(text, "|", 1, <<>>, <<>>, "")

(***************************************************************************)
(* Parser: shlex.split                                                     *)
(***************************************************************************)
Escape == "\\"

\* shlex.split(text): the POSIX-mode tokenizer with whitespace_split and no
\* comment characters.  state is " " (between tokens), "a" (in a word), a
\* quote character or the escape character; ok = FALSE is the ValueError
\* ("No closing quotation", "No escaped character") shlex raises at the end
\* of the text.
RECURSIVE ShlexScan(_, _, _, _, _, _, _)
ShlexScan(text, i, state, escapedstate, token, quoted, tokens) ==
  IF i > Len(text)
    THEN IF state \in Quotes \/ state = Escape
           THEN [ok |-> FALSE, tokens |-> tokens]
         ELSE IF state = "a" /\ (token # <<>> \/ quoted)
           THEN [ok |-> TRUE, tokens |-> Append(tokens, token)]
         ELSE [ok |-> TRUE, tokens |-> tokens]
    ELSE LET nextchar == text[i] IN
      IF state = " " THEN
           IF nextchar \in Whitespace
             THEN ShlexScan(text, i + 1, " ", escapedstate, token, quoted, tokens)
           ELSE IF nextchar = Escape
             THEN ShlexScan(text, i + 1, nextchar, "a", token, quoted, tokens)
           ELSE IF nextchar \in Quotes
             THEN ShlexScan(text, i + 1, nextchar, escapedstate, token, quoted, tokens)
           ELSE ShlexScan(text, i + 1, "a", escapedstate, <<nextchar>>, quoted, tokens)
      ELSE IF state \in Quotes THEN
           IF nextchar = state
             THEN ShlexScan(text, i + 1, "a", escapedstate, token, TRUE, tokens)
           ELSE IF nextchar = Escape /\ state = "\""
             THEN ShlexScan(text, i + 1, nextchar, state, token, TRUE, tokens)
           ELSE ShlexScan(text, i + 1, state, escapedstate, Append(token, nextchar), TRUE, tokens)
      ELSE IF state = Escape THEN
           LET kept == IF escapedstate \in Quotes /\ nextchar # state /\ nextchar # escapedstate
                         THEN Append(token, state) ELSE token
           IN  ShlexScan(text, i + 1, escapedstate, escapedstate, Append(kept, nextchar), quoted, tokens)
      ELSE \* state = "a"
           IF nextchar \in Whitespace
             THEN IF token # <<>> \/ quoted
                    THEN ShlexScan(text, i + 1, " ", escapedstate, <<>>, FALSE, Append(tokens, token))
                    ELSE ShlexScan(text, i + 1, " ", escapedstate, token, quoted, tokens)
           ELSE IF nextchar \in Quotes
             THEN ShlexScan(text, i + 1, nextchar, escapedstate, token, quoted, tokens)
           ELSE IF nextchar = Escape
             THEN ShlexScan(text, i + 1, nextchar, "a", token, quoted, tokens)
           ELSE ShlexScan(text, i + 1, "a", escapedstate, Append(token, nextchar), quoted, tokens)

shlex_split(text) == ShlexScan(text, 1, " ", " ", <<>>, FALSE, <<>>)

(***************************************************************************)
(* Ordering of strings (sorted(), and the order of a directory listing)    *)
(***************************************************************************)
\* The printable ASCII characters in code point order, from 32.
Ascii == <<" ","!","\"","#","$","%","&","'","(",")","*","+",",","-",".","/",
           "0","1","2","3","4","5","6","7","8","9",":",";","<","=",">","?","@",
           "A","B","C","D","E","F","G","H","I","J","K","L","M",
           "N","O","P","Q","R","S","T","U","V","W","X","Y","Z",
           "[","\\","]","^","_">>
\* and from 97
AsciiLow == <<"a","b","c","d","e","f","g","h","i","j","k","l","m",
              "n","o","p","q","r","s","t","u","v","w","x","y","z",
              "{","|","}","~">>

ord(ch) ==
  IF ch = "\t" THEN 9 ELSE IF ch = "\n" THEN 10 ELSE IF ch = "\r" THEN 13
  ELSE IF \E k \in 1..Len(Ascii) : Ascii[k] = ch
    THEN 31 + (CHOOSE k \in 1..Len(Ascii) : Ascii[k] = ch)
  ELSE 96 + (CHOOSE k \in 1..Len(AsciiLow) : AsciiLow[k] = ch)

\* s < t for str
RECURSIVE StrLess(_, _)
StrLess(s, t) ==
  IF t = <<>> THEN FALSE
  ELSE IF s = <<>> THEN TRUE
  ELSE IF Head(s) = Head(t) THEN StrLess(Tail(s), Tail(t))
  ELSE ord(Head(s)) < ord(Head(t))

\* sorted(S) of a set of strings
RECURSIVE sorted(_)
sorted(S) ==
  IF S = {} THEN <<>>
  ELSE LET m == CHOOSE x \in S : \A y \in S \ {x} : StrLess(x, y)
       IN  <<m>> \o sorted(S \ {m})

(***************************************************************************)
(* The world a statement runs in.  w is a record:                          *)
(*   variables, aliases, history   Environment                             *)
(*   cwd, files                    the working directory and the files     *)
(*   out, err                      what the terminal received              *)
(*   procs, fds                    the spawned processes and the open      *)
(*                                 descriptors of the shell itself         *)
(***************************************************************************)
\* dict[key] = value
Put(f, key, value) == [k \in DOMAIN f \cup {key} |-> IF k = key THEN value ELSE f[k]]

\* del dict[key]
Del(f, key) == [k \in DOMAIN f \ {key} |-> f[k]]

EmptyDict == [k \in {} |-> <<>>]

\* The home directory of the password database, Path.home() when HOME is unset.
PasswdHome == <<"/","h">>

\* Environment.get
get(w, key, default) == IF key \in DOMAIN w.variables THEN w.variables[key] ELSE default

\* Environment.set: the variable store and os.environ change together, so the
\* one mapping stands for both.
set(w, key, value) == [w EXCEPT !.variables = Put(w.variables, key, value)]

\* Last index of the longest run of name characters starting at from, or from - 1.
RECURSIVE NameEnd(_, _)
NameEnd(text, from) ==
  IF from <= Len(text) /\ text[from] \in NameChar THEN NameEnd(text, from + 1) ELSE from - 1

\* re.sub of \$\{([^}]+)\}|\$([A-Za-z_][A-Za-z0-9_]*) with replace_var: an
\* undefined name is replaced by the matched text itself.
\* The match of the pattern at a "$" at i: [len, name], len = 0 for none.
BraceMatch(text, i, close) ==
  IF close > i + 2 THEN [len |-> close - i + 1, name |-> SubSeq(text, i + 2, close - 1)]
  ELSE [len |-> 0, name |-> <<>>]

NameMatch(text, i, e) == [len |-> e - i + 1, name |-> SubSeq(text, i + 1, e)]

MatchAt(text, i) ==
  IF i + 1 <= Len(text) /\ text[i + 1] = "{" THEN BraceMatch(text, i, IndexFrom(text, "}", i + 2))
  ELSE IF i + 1 <= Len(text) /\ text[i + 1] \in NameStart THEN NameMatch(text, i, NameEnd(text, i + 1))
  ELSE [len |-> 0, name |-> <<>>]

\* replace_var with an undefined name replaced by the empty string.
replace_var_empty(w, text, i, m) == get(w, m.name, <<>>)

\* replace_var (lines 45-47): the value, or the matched text when undefined.
replace_var(w, text, i, m) == get(w, m.name, SubSeq(text, i, i + m.len - 1))

RECURSIVE ExpandScan(_, _, _, _)

ExpandMatch(w, text, i, acc, m) ==
  IF m.len = 0 THEN ExpandScan(w, text, i + 1, Append(acc, text[i]))
  ELSE ExpandScan(w, text, i + m.len, acc \o replace_var(w, text, i, m))

ExpandScan(w, text, i, acc) ==
  IF i > Len(text) THEN acc
  ELSE IF text[i] # "$" THEN ExpandScan(w, text, i + 1, Append(acc, text[i]))
  ELSE ExpandMatch(w, text, i, acc, MatchAt(text, i))

\* Environment.expand
expand(w, text) == ExpandScan(w, text, 1, <<>>)

\* Environment.expand_tilde
expand_tilde(w, path) ==
  IF startswith(path, <<"~">>) THEN get(w, <<"H","O","M","E">>, PasswdHome) \o Tail(path)
  ELSE path

(***************************************************************************)
(* Files and directories                                                   *)
(***************************************************************************)
Slash == <<"/">>

\* The directories that exist; none is created or removed by the shell.
\* /r exists and may not be entered.
Dirs == {Slash, <<"/","h">>, <<"/","t">>, <<"/","r">>}
NoEntryDirs == {<<"/","r">>}

\* text.split("/")
RECURSIVE SplitSlash(_, _, _)
SplitSlash(text, i, current) ==
  IF i > Len(text) THEN <<current>>
  ELSE IF text[i] = "/" THEN <<current>> \o SplitSlash(text, i + 1, <<>>)
  ELSE SplitSlash(text, i + 1, Append(current, text[i]))

\* The components of an absolute path with "", "." and ".." resolved.
RECURSIVE NormParts(_, _)
NormParts(parts, acc) ==
  IF parts = <<>> THEN acc
  ELSE LET c == Head(parts) IN
    IF c = <<>> \/ c = <<".">> THEN NormParts(Tail(parts), acc)
    ELSE IF c = <<".", ".">>
      THEN NormParts(Tail(parts), IF acc = <<>> THEN acc ELSE SubSeq(acc, 1, Len(acc) - 1))
    ELSE NormParts(Tail(parts), Append(acc, c))

\* The absolute path the kernel resolves path to, from the working directory.
JoinParts(parts) == IF parts = <<>> THEN Slash ELSE Slash \o join(Slash, parts)

abspath(w, path) ==
  JoinParts(NormParts(SplitSlash(IF startswith(path, Slash) THEN path ELSE w.cwd \o Slash \o path,
                                 1, <<>>), <<>>))

isdir(w, path) == path # <<>> /\ abspath(w, path) \in Dirs

isfile(w, path) == path # <<>> /\ abspath(w, path) \in DOMAIN w.files

\* os.path.lexists
lexists(w, path) == isdir(w, path) \/ isfile(w, path)

\* Last index of "/" in path, or 0.
RECURSIVE rfind_slash(_, _)
rfind_slash(path, i) == IF i = 0 THEN 0 ELSE IF path[i] = "/" THEN i ELSE rfind_slash(path, i - 1)

RECURSIVE rstrip_slash(_)
rstrip_slash(s) == IF s # <<>> /\ s[Len(s)] = "/" THEN rstrip_slash(SubSeq(s, 1, Len(s) - 1)) ELSE s

\* os.path.split
SplitAt(path, i, stripped) ==
  [head |-> IF stripped = <<>> THEN SubSeq(path, 1, i) ELSE stripped,
   tail |-> SubSeq(path, i + 1, Len(path))]

SplitAtSlash(path, i) == SplitAt(path, i, rstrip_slash(SubSeq(path, 1, i)))

path_split(path) == SplitAtSlash(path, rfind_slash(path, Len(path)))

\* os.path.join(dirname, name), name relative
path_join(dirname, name) ==
  IF dirname = <<>> \/ dirname[Len(dirname)] = "/" THEN dirname \o name
  ELSE dirname \o Slash \o name

\* os.listdir(dirname) as a set: the files and directories directly in it.
\* The absolute path of the directory an absolute path is in.
ParentOf(q) == JoinParts(NormParts(SplitSlash(SubSeq(q, 1, rfind_slash(q, Len(q))), 1, <<>>), <<>>))

BaseOf(q) == SubSeq(q, rfind_slash(q, Len(q)) + 1, Len(q))

Entries(w, d) == {BaseOf(q) : q \in {q \in (DOMAIN w.files \cup Dirs) \ {Slash} : ParentOf(q) = d}}

listdir(w, dirname) == Entries(w, abspath(w, dirname))

(***************************************************************************)
(* glob.glob                                                               *)
(***************************************************************************)
MagicChars == {"*", "?", "["}

has_magic(s) == \E i \in 1..Len(s) : s[i] \in MagicChars

\* Whether ch is in the body of a bracket expression (ranges included).
RECURSIVE ClassHas(_, _)
ClassHas(body, ch) ==
  IF body = <<>> THEN FALSE
  ELSE IF Len(body) >= 3 /\ body[2] = "-"
    THEN (ord(body[1]) <= ord(ch) /\ ord(ch) <= ord(body[3])) \/ ClassHas(SubSeq(body, 4, Len(body)), ch)
  ELSE body[1] = ch \/ ClassHas(Tail(body), ch)

BracketNeg(pat) == Len(pat) >= 2 /\ pat[2] = "!"

BracketFirst(pat) == IF BracketNeg(pat) THEN 3 ELSE 2

BracketClose(pat) == IndexFrom(pat, "]", BracketFirst(pat) + 1)

\* fnmatch.fnmatchcase(name, pat)
RECURSIVE fnmatch(_, _)
fnmatch(name, pat) ==
  IF pat = <<>> THEN name = <<>>
  ELSE IF Head(pat) = "*"
    THEN fnmatch(name, Tail(pat)) \/ (name # <<>> /\ fnmatch(Tail(name), pat))
  ELSE IF Head(pat) = "?"
    THEN name # <<>> /\ fnmatch(Tail(name), Tail(pat))
  ELSE IF Head(pat) = "["
    THEN \* a "]" right after the opening (or after "!") is a member, not the end
         IF BracketClose(pat) = 0
           THEN name # <<>> /\ Head(name) = "[" /\ fnmatch(Tail(name), Tail(pat))
           ELSE name # <<>>
                /\ (ClassHas(SubSeq(pat, BracketFirst(pat), BracketClose(pat) - 1), Head(name))
                      # BracketNeg(pat))
                /\ fnmatch(Tail(name), SubSeq(pat, BracketClose(pat) + 1, Len(pat)))
  ELSE name # <<>> /\ Head(name) = Head(pat) /\ fnmatch(Tail(name), Tail(pat))

\* glob._glob1: the entries of dirname that match, hidden ones only for a
\* pattern that starts with a dot; in sorted order (the order of a
\* directory listing is the file system's).
Glob1In(w, d, pattern) ==
  IF d \notin Dirs THEN <<>>
  ELSE sorted({n \in Entries(w, d) :
                 /\ (startswith(n, <<".">>) => startswith(pattern, <<".">>))
                 /\ fnmatch(n, pattern)})

glob1(w, dirname, pattern) == Glob1In(w, abspath(w, IF dirname = <<>> THEN w.cwd ELSE dirname), pattern)

\* glob._glob0
glob0(w, dirname, basename) ==
  IF basename = <<>>
    THEN (IF isdir(w, dirname) THEN <<basename>> ELSE <<>>)
    ELSE (IF lexists(w, path_join(dirname, basename)) THEN <<basename>> ELSE <<>>)

RECURSIVE JoinEach(_, _)
JoinEach(dirname, names) ==
  IF names = <<>> THEN <<>> ELSE <<path_join(dirname, Head(names))>> \o JoinEach(dirname, Tail(names))

\* The loop over the directories: glob1 for a pattern, glob0 for a name.
RECURSIVE GlobInDirs(_, _, _)
GlobInDirs(w, dirs, basename) ==
  IF dirs = <<>> THEN <<>>
  ELSE JoinEach(Head(dirs),
                IF has_magic(basename) THEN glob1(w, Head(dirs), basename)
                ELSE glob0(w, Head(dirs), basename))
       \o GlobInDirs(w, Tail(dirs), basename)

RECURSIVE glob(_, _)

GlobSplit(w, pathname, sp) ==
  IF ~has_magic(pathname)
    THEN (IF sp.tail # <<>>
            THEN (IF lexists(w, pathname) THEN <<pathname>> ELSE <<>>)
            ELSE (IF isdir(w, sp.head) THEN <<pathname>> ELSE <<>>))
  ELSE IF sp.head = <<>> THEN glob1(w, <<>>, sp.tail)
  ELSE GlobInDirs(w, IF sp.head # pathname /\ has_magic(sp.head) THEN glob(w, sp.head)
                     ELSE <<sp.head>>, sp.tail)

\* glob.glob(pathname)
glob(w, pathname) == GlobSplit(w, pathname, path_split(pathname))

(***************************************************************************)
(* Parser: commands, pipelines, lines                                      *)
(***************************************************************************)
\* Command()
NewCommand == [args |-> <<>>, input_file |-> None, output_file |-> None,
               append_output |-> FALSE, background |-> FALSE]

\* Lines 203-210: the matches of a word with a wildcard, or the word itself.
AddMatches(cmd, expanded, matches) ==
  [cmd EXCEPT !.args = IF matches # <<>> THEN @ \o matches ELSE Append(@, expanded)]

AddWord(w, cmd, expanded) ==
  AddMatches(cmd, expanded, IF has_magic(expanded) THEN glob(w, expanded) ELSE <<>>)

\* The token loop of Parser._parse_command (lines 170-211).
RECURSIVE TokenLoop(_, _, _, _)
TokenLoop(w, tokens, i, cmd) ==
  IF i > Len(tokens) THEN cmd
  ELSE LET token == tokens[i] IN
    IF token = <<"<">> THEN
      IF i + 1 <= Len(tokens)
        THEN TokenLoop(w, tokens, i + 2,
                       [cmd EXCEPT !.input_file = expand_tilde(w, expand(w, tokens[i + 1]))])
        ELSE TokenLoop(w, tokens, i + 1, cmd)
    ELSE IF token = <<">">> THEN
      IF i + 1 <= Len(tokens)
        THEN TokenLoop(w, tokens, i + 2,
                       [cmd EXCEPT !.output_file = expand_tilde(w, expand(w, tokens[i + 1])),
                                   !.append_output = FALSE])
        ELSE TokenLoop(w, tokens, i + 1, cmd)
    ELSE IF token = <<">", ">">> THEN
      IF i + 1 <= Len(tokens)
        THEN TokenLoop(w, tokens, i + 2,
                       [cmd EXCEPT !.output_file = expand_tilde(w, expand(w, tokens[i + 1])),
                                   !.append_output = TRUE])
        ELSE TokenLoop(w, tokens, i + 1, cmd)
    ELSE IF token = <<"&">> /\ i = Len(tokens) THEN
      TokenLoop(w, tokens, i + 1, [cmd EXCEPT !.background = TRUE])
    ELSE TokenLoop(w, tokens, i + 1, AddWord(w, cmd, expand_tilde(w, expand(w, token))))

\* The alias check of Parser._parse_command (lines 213-217): [ok, args]; not
\* ok is shlex's ValueError on the replacement text.
AliasTokens(alias_tokens, args) == [ok |-> alias_tokens.ok, args |-> alias_tokens.tokens \o Tail(args)]

\* One pass of the substitution, an unparsable replacement text left alone.
SubstituteOnce(w, args) ==
  IF args # <<>> /\ args[1] \in DOMAIN w.aliases /\ shlex_split(w.aliases[args[1]]).ok
    THEN shlex_split(w.aliases[args[1]]).tokens \o Tail(args)
    ELSE args

\* alias_substitute with the substituted tokens alias-expanded once more.
alias_substitute_again(w, args) ==
  IF args # <<>> /\ args[1] \in DOMAIN w.aliases
    THEN [ok |-> shlex_split(w.aliases[args[1]]).ok,
          args |-> SubstituteOnce(w, SubstituteOnce(w, args))]
    ELSE [ok |-> TRUE, args |-> args]

alias_substitute(w, args) ==
  IF args # <<>> /\ args[1] \in DOMAIN w.aliases
    THEN AliasTokens(shlex_split(w.aliases[args[1]]), args)
    ELSE [ok |-> TRUE, args |-> args]

WithArgs(cmd, sub) == [ok |-> sub.ok, cmd |-> [cmd EXCEPT !.args = sub.args]]

Aliased(w, cmd) == WithArgs(cmd, alias_substitute(w, cmd.args))

ParseTokens(w, tokens) ==
  IF ~tokens.ok THEN [ok |-> FALSE, cmd |-> NewCommand]
  ELSE Aliased(w, TokenLoop(w, tokens.tokens, 1, NewCommand))

\* Parser._parse_command: [ok, cmd]; not ok is ValueError.
parse_command(w, text) == ParseTokens(w, shlex_split(text))

ConsCommand(c, rest) == [ok |-> rest.ok, commands |-> <<c.cmd>> \o rest.commands]

RECURSIVE ParseCommands(_, _)

ParseCommandsFrom(w, texts, c) ==
  IF ~c.ok THEN [ok |-> FALSE, commands |-> <<>>]
  ELSE ConsCommand(c, ParseCommands(w, Tail(texts)))

\* The loop of Parser._parse_pipeline: [ok, commands].
ParseCommands(w, texts) ==
  IF texts = <<>> THEN [ok |-> TRUE, commands |-> <<>>]
  ELSE ParseCommandsFrom(w, texts, parse_command(w, Head(texts)))

\* Parser._parse_pipeline: [ok, commands], the commands of the Pipeline.
parse_pipeline(w, text) == ParseCommands(w, split_by_pipe(text))

ConsPipeline(p, rest) == [ok |-> rest.ok, pipelines |-> <<p.commands>> \o rest.pipelines]

RECURSIVE ParseStatements(_, _)

ParseStatementsFrom(w, statements, p) ==
  IF ~p.ok THEN [ok |-> FALSE, pipelines |-> <<>>]
  ELSE ConsPipeline(p, ParseStatements(w, Tail(statements)))

ParseStatement(w, statements, stmt) ==
  IF stmt = <<>> THEN ParseStatements(w, Tail(statements))
  ELSE ParseStatementsFrom(w, statements, parse_pipeline(w, stmt))

\* The loop of Parser.parse (lines 88-91).
ParseStatements(w, statements) ==
  IF statements = <<>> THEN [ok |-> TRUE, pipelines |-> <<>>]
  ELSE ParseStatement(w, statements, strip(Head(statements)))

\* Parser.parse: [ok, pipelines]; a pipeline is the sequence of its commands.
parse(w, input_line) == ParseStatements(w, split_by_semicolon(input_line))

(***************************************************************************)
(* Outcomes of a call: it returns a status, raises, or exits the process   *)
(* (SystemExit).                                                           *)
(***************************************************************************)
Return(w, status) == [w |-> w, kind |-> "return", status |-> status, exc |-> ""]

Raise(w, exc) == [w |-> w, kind |-> "raise", status |-> 0, exc |-> exc]

SysExit(w, code) == [w |-> w, kind |-> "exit", status |-> code, exc |-> "SystemExit"]

\* The call never comes back: proc.wait() waits for a child that cannot exit.
Block(w) == [w |-> w, kind |-> "block", status |-> 0, exc |-> ""]

\* print(line) and print(line, file=sys.stderr)
print(w, line) == [w EXCEPT !.out = Append(@, line)]

eprint(w, line) == [w EXCEPT !.err = Append(@, line)]

RECURSIVE PrintAll(_, _)
PrintAll(w, lines) == IF lines = <<>> THEN w ELSE PrintAll(print(w, Head(lines)), Tail(lines))

\* Names of some variables and words
V_HOME == <<"H","O","M","E">>
V_PWD == <<"P","W","D">>
V_STATUS == <<"?">>

(***************************************************************************)
(* External programs: what a child process does once it runs.              *)
(***************************************************************************)
P_true == <<"t","r","u","e">>
P_false == <<"f","a","l","s","e">>
P_cat == <<"c","a","t">>
P_echo == <<"e","c","h","o">>
P_ls == <<"l","s">>
P_make == <<"m","a","k","e">>

\* The executables found on the search path.  echo exists both as a program
\* and as a builtin.
ProgramsOnPath == {P_true, P_false, P_cat, P_echo, P_ls, P_make}

\* Whether a program writes more to its standard error than a pipe holds
\* before it exits: make prints a long log there.
fills_stderr(argv) == argv[1] = P_make

\* The exit status of a program.
ProgramStatus(argv) == IF argv[1] = P_false THEN 1 ELSE 0

\* The lines a program writes to its standard output, given the lines of its
\* standard input: cat copies its input, echo prints its operands, ls lists
\* the working directory.
ProgramOutput(w, argv, input) ==
  IF argv[1] = P_cat THEN input
  ELSE IF argv[1] = P_echo THEN <<join(<<" ">>, Tail(argv))>>
  ELSE IF argv[1] = P_ls THEN sorted({n \in listdir(w, w.cwd) : ~startswith(n, <<".">>)})
  ELSE <<>>

(***************************************************************************)
(* Descriptors of the parent process                                       *)
(***************************************************************************)
\* The lowest descriptor number not in use, from 3.
FreeFd(w) == CHOOSE n \in 3..(3 + Cardinality(w.fds)) :
               /\ n \notin {d.fd : d \in w.fds}
               /\ \A m \in 3..(n - 1) : m \in {d.fd : d \in w.fds}

AddFd(w, fd, kind) == [w EXCEPT !.fds = @ \cup {[fd |-> fd, kind |-> kind]}]

\* A stage's stdin or stdout before it is set (None).
NoStream == [kind |-> "none", fd |-> 0, path |-> <<>>]

PipeWrite(w, r, e) == [w |-> AddFd(w, e, "pipe_w"), r |-> r, e |-> e]

PipeReadOpen(w, r) == PipeWrite(w, r, FreeFd(w))

PipeRead(w, r) == PipeReadOpen(AddFd(w, r, "pipe_r"), r)

\* os.pipe(): [w, r, e], the read end and the write end
os_pipe(w) == PipeRead(w, FreeFd(w))

IsOpen(w, fd) == fd \in {d.fd : d \in w.fds}

\* os.close(fd) is called: closes is the record of the calls the parent has
\* made, in order.
close_called(w, fd) == [w EXCEPT !.closes = Append(@, fd)]

\* os.close(fd) of an open descriptor
os_close(w, fd) == [close_called(w, fd) EXCEPT !.fds = {d \in @ : d.fd # fd}]

Opened(w, ap) ==
  [ok |-> TRUE, exc |-> "", w |-> AddFd(w, FreeFd(w), "file"),
   stream |-> [kind |-> "file", fd |-> FreeFd(w), path |-> ap]]

OpenFailed(w, exc) == [ok |-> FALSE, exc |-> exc, w |-> w, stream |-> NoStream]

OpenAbs(w, ap, parent, mode) ==
  IF ap \in Dirs THEN OpenFailed(w, "IsADirectoryError")
  ELSE IF parent \notin Dirs THEN OpenFailed(w, "FileNotFoundError")
  ELSE IF parent \in NoEntryDirs THEN OpenFailed(w, "PermissionError")
  ELSE IF mode = "r"
    THEN (IF ap \in DOMAIN w.files THEN Opened(w, ap) ELSE OpenFailed(w, "FileNotFoundError"))
  ELSE IF mode = "w" THEN Opened([w EXCEPT !.files = Put(@, ap, <<>>)], ap)
  ELSE Opened(IF ap \in DOMAIN w.files THEN w ELSE [w EXCEPT !.files = Put(@, ap, <<>>)], ap)

OpenPath(w, ap, mode) == OpenAbs(w, ap, ParentOf(ap), mode)

\* open(path, mode): [ok, exc, w, stream].  "r" needs a file; "w" creates or
\* truncates and "a" creates, both in a directory that exists and may be
\* entered.
open(w, path, mode) == OpenPath(w, abspath(w, path), mode)

\* The file objects a returning call drops are closed with it (reference
\* counting); a descriptor held as an int is not.
close_files(w, streams) ==
  [w EXCEPT !.fds = {d \in @ : d.fd \notin {s.fd : s \in {t \in streams : t.kind = "file"}}}]

\* The file objects of a call are closed when it ends, however it ends; a
\* call that never comes back closes nothing.
Closing(r, streams) == IF r.kind = "block" THEN r ELSE [r EXCEPT !.w = close_files(@, streams)]

(***************************************************************************)
(* Builtins                                                                *)
(***************************************************************************)
B_cd == <<"c","d">>
B_pwd == <<"p","w","d">>
B_exit == <<"e","x","i","t">>
B_export == <<"e","x","p","o","r","t">>
B_echo == <<"e","c","h","o">>
B_history == <<"h","i","s","t","o","r","y">>
B_alias == <<"a","l","i","a","s">>
B_unalias == <<"u","n","a","l","i","a","s">>
B_env == <<"e","n","v">>
B_source == <<"s","o","u","r","c","e">>

\* The keys of the builtins table of Builtins.execute.
builtins == {B_cd, B_pwd, B_exit, B_export, B_echo, B_history, B_alias, B_unalias,
             B_env, B_source}

Chdir(w, path, ap) ==
  IF path = <<>> \/ ap \notin (Dirs \cup DOMAIN w.files)
    THEN Return(eprint(w, <<"cd: ">> \o path \o <<": No such file or directory">>), 1)
  ELSE IF ap \in DOMAIN w.files THEN Raise(w, "NotADirectoryError")
  ELSE IF ap \in NoEntryDirs
    THEN Return(eprint(w, <<"cd: ">> \o path \o <<": Permission denied">>), 1)
  ELSE Return(set([w EXCEPT !.cwd = ap], V_PWD, ap), 0)

ChdirTo(w, path) == Chdir(w, path, abspath(w, path))

\* Builtins.cmd_cd.  A path that is a file raises NotADirectoryError, which
\* the handler does not catch.
cmd_cd(w, cmd) ==
  ChdirTo(w, expand_tilde(w, IF Len(cmd.args) > 1 THEN cmd.args[2] ELSE get(w, V_HOME, <<>>)))

\* Builtins.cmd_pwd
cmd_pwd(w, cmd) == Return(print(w, w.cwd), 0)

ExitWith(w, code) == IF code.ok THEN SysExit(w, code.value) ELSE Raise(w, "ValueError")

\* Builtins.cmd_exit
cmd_exit(w, cmd) == IF Len(cmd.args) > 1 THEN ExitWith(w, int(cmd.args[2])) ELSE SysExit(w, 0)

\* The KEY=VALUE lines of export and env, sorted by key.
RECURSIVE VariableLines(_, _)
VariableLines(w, keys) ==
  IF keys = <<>> THEN <<>>
  ELSE <<Head(keys) \o <<"=">> \o w.variables[Head(keys)]>> \o VariableLines(w, Tail(keys))

\* key, value = arg.split('=', 1), for an arg with "=" at eq
ExportArg(w, arg, eq) ==
  IF eq > 0 THEN set(w, SubSeq(arg, 1, eq - 1), SubSeq(arg, eq + 1, Len(arg))) ELSE w

RECURSIVE ExportEach(_, _)
ExportEach(w, args) ==
  IF args = <<>> THEN w
  ELSE ExportEach(ExportArg(w, Head(args), IndexFrom(Head(args), "=", 1)), Tail(args))

\* Builtins.cmd_export
cmd_export(w, cmd) ==
  IF Len(cmd.args) < 2
    THEN Return(PrintAll(w, VariableLines(w, sorted(DOMAIN w.variables))), 0)
    ELSE Return(ExportEach(w, Tail(cmd.args)), 0)

\* Builtins.cmd_echo
cmd_echo(w, cmd) == Return(print(w, expand(w, join(<<" ">>, Tail(cmd.args)))), 0)

RECURSIVE HistoryLines(_, _)
HistoryLines(history, i) ==
  IF i > Len(history) THEN <<>>
  ELSE <<<<"  ">> \o IntToStr(i) \o <<"  ">> \o history[i]>> \o HistoryLines(history, i + 1)

\* Builtins.cmd_history
cmd_history(w, cmd) == Return(PrintAll(w, HistoryLines(w.history, 1)), 0)

RECURSIVE AliasLines(_, _)
AliasLines(w, names) ==
  IF names = <<>> THEN <<>>
  ELSE <<<<"alias ">> \o Head(names) \o <<"='">> \o w.aliases[Head(names)] \o <<"'">>>>
       \o AliasLines(w, Tail(names))

\* Environment.add_alias
add_alias(w, name, command) == [w EXCEPT !.aliases = Put(@, name, command)]

\* name, command = arg.split('=', 1); command.strip('\'"')
AliasArg(w, arg, eq) ==
  IF eq > 0
    THEN add_alias(w, SubSeq(arg, 1, eq - 1), strip_chars(SubSeq(arg, eq + 1, Len(arg)), Quotes))
    ELSE w

RECURSIVE AliasEach(_, _)
AliasEach(w, args) ==
  IF args = <<>> THEN w
  ELSE AliasEach(AliasArg(w, Head(args), IndexFrom(Head(args), "=", 1)), Tail(args))

\* Builtins.cmd_alias
cmd_alias(w, cmd) ==
  IF Len(cmd.args) < 2
    THEN Return(PrintAll(w, AliasLines(w, sorted(DOMAIN w.aliases))), 0)
    ELSE Return(AliasEach(w, Tail(cmd.args)), 0)

RECURSIVE UnaliasEach(_, _)
UnaliasEach(w, names) ==
  IF names = <<>> THEN w
  ELSE UnaliasEach([w EXCEPT !.aliases = Del(@, Head(names))], Tail(names))

\* Builtins.cmd_unalias
cmd_unalias(w, cmd) == Return(UnaliasEach(w, Tail(cmd.args)), 0)

\* Builtins.cmd_env
cmd_env(w, cmd) == Return(PrintAll(w, VariableLines(w, sorted(DOMAIN w.variables))), 0)

(***************************************************************************)
(* Executor, and the source builtin that calls back into it                *)
(***************************************************************************)
\* How deep source may nest before Python raises RecursionError.
RecursionLimit == 3

NoPipe == [r |-> 0, e |-> 0]

\* What subprocess.Popen(argv) raises, or "": a name that is no program on
\* the path is not found, a directory cannot be executed.
popen_error(w, argv) ==
  IF argv[1] \in ProgramsOnPath THEN ""
  ELSE IF IndexFrom(argv[1], "/", 1) > 0 /\ isdir(w, argv[1]) THEN "PermissionError"
  ELSE "FileNotFoundError"

\* A fileno() that never raises.
fileno_never_raises(stream) == FALSE

\* Whether stream.fileno() raises AttributeError: a pipe end is an int, which
\* has no fileno (lines 391-392).
fileno_raises(stream) == stream.kind = "int"

\* stderr of Popen (line 399): a pipe of its own unless the command is
\* backgrounded, and then inherited.
popen_stderr(cmd) == IF ~cmd.background THEN "pipe" ELSE "inherit"

\* subprocess.Popen: the child exists, with these streams.
Popen(w, cmd, stdin, stdout) ==
  [w EXCEPT !.procs = Append(@, [pid |-> Len(w.procs) + 1, argv |-> cmd.args,
                                 stdin |-> stdin, stdout |-> stdout,
                                 stderr |-> popen_stderr(cmd),
                                 background |-> cmd.background,
                                 waited |-> FALSE, done |-> FALSE, status |-> 0])]

\* What the child reads: the file, or what the previous stage wrote into the
\* pipe (carry); nothing is typed at the terminal.
ChildInput(w, proc, carry) ==
  IF proc.stdin.kind = "file"
    THEN (IF proc.stdin.path \in DOMAIN w.files THEN w.files[proc.stdin.path] ELSE <<>>)
  ELSE IF proc.stdin.kind = "int" THEN carry
  ELSE <<>>

\* The child writes its output and exits.
ChildWrites(w, pid, proc, output) ==
  [w |-> [(IF proc.stdout.kind = "file"
             THEN [w EXCEPT !.files = Put(@, proc.stdout.path,
                                          (IF proc.stdout.path \in DOMAIN @ THEN @[proc.stdout.path]
                                           ELSE <<>>) \o output)]
           ELSE IF proc.stdout.kind = "int" THEN w
           ELSE PrintAll(w, output))
          EXCEPT !.procs[pid].done = TRUE, !.procs[pid].status = ProgramStatus(proc.argv)],
   carry |-> IF proc.stdout.kind = "int" THEN output ELSE <<>>]

\* The child runs to its end: it reads its input, writes its output, exits.
run_child(w, pid, carry) ==
  ChildWrites(w, pid, w.procs[pid],
              ProgramOutput(w, w.procs[pid].argv, ChildInput(w, w.procs[pid], carry)))

\* The parent never reads the pipe it made for the child's stderr (line 399
\* makes it, nothing reads it), so a child that fills that pipe stays blocked
\* in its write and never exits.
blocks_on_stderr(proc) == proc.stderr = "pipe" /\ fills_stderr(proc.argv)

\* A return without any wait.
wait_none(w, processes, carry, last_status) ==
  [w |-> w, last_status |-> last_status, blocked |-> FALSE]

RECURSIVE wait_all(_, _, _, _)

Waited(ran, processes) ==
  wait_all([ran.w EXCEPT !.procs[Head(processes)].waited = TRUE], Tail(processes), ran.carry,
           ran.w.procs[Head(processes)].status)

\* for proc in processes: proc.wait(); last_status = proc.returncode
wait_all(w, processes, carry, last_status) ==
  IF processes = <<>> THEN [w |-> w, last_status |-> last_status, blocked |-> FALSE]
  ELSE IF ~w.procs[Head(processes)].done /\ blocks_on_stderr(w.procs[Head(processes)])
    THEN [w |-> w, last_status |-> last_status, blocked |-> TRUE]
  ELSE Waited(IF w.procs[Head(processes)].done THEN [w |-> w, carry |-> <<>>]
              ELSE run_child(w, Head(processes), carry),
              processes)

ReturnWaited(waited) ==
  IF waited.blocked THEN Block(waited.w) ELSE Return(waited.w, waited.last_status)

\* Lines 423-432, after the stage loop.  cmd is the loop variable, which the
\* loop leaves at the last command of the pipeline.
after_stages(w, commands, processes) ==
  IF ~commands[Len(commands)].background THEN ReturnWaited(wait_all(w, processes, <<>>, 0))
  ELSE IF processes = <<>> THEN Raise(w, "IndexError")
  ELSE Return(print(w, <<"[">> \o IntToStr(processes[Len(processes)]) \o <<"] started in background">>), 0)

\* The stage loop, lines 365-421.  i counts from 1; streams are the file
\* objects and pipe ends this call has made so far.
RECURSIVE stage_loop(_, _, _, _, _, _)

\* Lines 416-421: the previous pipe's read end is closed; closing a
\* descriptor that is not open raises OSError.
StageEnd(w, commands, i, processes, prev_pipe, curr_pipe, streams) ==
  IF prev_pipe # NoPipe /\ ~IsOpen(w, prev_pipe.r)
    THEN Raise(close_files(close_called(w, prev_pipe.r), streams), "OSError")
  ELSE stage_loop(IF prev_pipe # NoPipe THEN os_close(w, prev_pipe.r) ELSE w,
                  commands, i + 1, processes, curr_pipe, streams)

\* Lines 403-407: a stream that is an int is closed in the parent.
CloseInt(w, stream) == IF stream.kind = "int" THEN os_close(w, stream.fd) ELSE w

\* Lines 394-414: Popen, and its two except clauses.
StageSpawn(w, commands, i, processes, prev_pipe, curr_pipe, streams, stdin, stdout, error) ==
  IF error = "FileNotFoundError"
    THEN Return(close_files(eprint(w, commands[i].args[1] \o <<": command not found">>), streams), 127)
  ELSE IF error # ""
    THEN Return(close_files(eprint(w, <<"Error executing ">> \o commands[i].args[1] \o <<": ">>
                                      \o <<error>>), streams), 1)
  ELSE StageEnd(CloseInt(CloseInt(Popen(w, commands[i], stdin, stdout), stdin), stdout),
                commands, i, Append(processes, Len(w.procs) + 1), prev_pipe, curr_pipe, streams)

\* Lines 390-392: fileno() of the two streams.
StageFileno(w, commands, i, processes, prev_pipe, curr_pipe, streams, stdin, stdout) ==
  IF fileno_raises(stdin) \/ fileno_raises(stdout)
    THEN Raise(close_files(w, streams), "AttributeError")
    ELSE StageSpawn(w, commands, i, processes, prev_pipe, curr_pipe, streams, stdin, stdout,
                    popen_error(w, commands[i].args))

\* Lines 382-388: stdout is the output file of the last command, or else the
\* write end of the pipe just made.
StageStdout(commands, i, processes, prev_pipe, curr_pipe, streams, stdin, out_open) ==
  IF ~out_open.ok THEN Raise(close_files(out_open.w, streams \cup {stdin}), out_open.exc)
  ELSE StageFileno(out_open.w, commands, i, processes, prev_pipe, curr_pipe,
                   streams \cup {stdin, out_open.stream}, stdin, out_open.stream)

\* Lines 375-380: stdin is the input file of the first command, or else the
\* read end of the previous pipe.
StageStdin(commands, i, processes, prev_pipe, curr_pipe, streams, in_open) ==
  IF ~in_open.ok THEN Raise(close_files(in_open.w, streams), in_open.exc)
  ELSE StageStdout(commands, i, processes, prev_pipe, curr_pipe, streams, in_open.stream,
                   IF i = Len(commands) /\ commands[i].output_file # None
                     THEN open(in_open.w, commands[i].output_file,
                               IF commands[i].append_output THEN "a" ELSE "w")
                     ELSE [ok |-> TRUE, exc |-> "", w |-> in_open.w,
                           stream |-> IF curr_pipe # NoPipe
                                        THEN [kind |-> "int", fd |-> curr_pipe.e, path |-> <<>>]
                                        ELSE NoStream])

\* Lines 369-373: a pipe for every command but the last.
StagePipe(commands, i, processes, prev_pipe, streams, piped) ==
  StageStdin(commands, i, processes, prev_pipe, [r |-> piped.r, e |-> piped.e], streams,
             IF i = 1 /\ commands[i].input_file # None
               THEN open(piped.w, commands[i].input_file, "r")
               ELSE [ok |-> TRUE, exc |-> "", w |-> piped.w,
                     stream |-> IF prev_pipe # NoPipe
                                  THEN [kind |-> "int", fd |-> prev_pipe.r, path |-> <<>>]
                                  ELSE NoStream])

stage_loop(w, commands, i, processes, prev_pipe, streams) ==
  IF i > Len(commands) THEN Closing(after_stages(w, commands, processes), streams)
  ELSE IF commands[i].args = <<>> THEN stage_loop(w, commands, i + 1, processes, prev_pipe, streams)
  ELSE StagePipe(commands, i, processes, prev_pipe, streams,
                 IF i < Len(commands) THEN os_pipe(w) ELSE [w |-> w, r |-> 0, e |-> 0])

RECURSIVE execute_pipeline(_, _, _)

RECURSIVE SourcePipelines(_, _, _)

SourcePipelinesNext(r, pipelines, depth) ==
  IF r.kind # "return" THEN r ELSE SourcePipelines(r.w, Tail(pipelines), depth)

\* Lines 340-341: the pipelines of a sourced line run, the statuses dropped;
\* the first raise or exit ends the loop.
SourcePipelines(w, pipelines, depth) ==
  IF pipelines = <<>> THEN Return(w, 0)
  ELSE SourcePipelinesNext(execute_pipeline(w, Head(pipelines), depth), pipelines, depth)

RECURSIVE SourceLines(_, _, _)

SourceNext(r, lines, depth) ==
  IF r.kind # "return" THEN r ELSE SourceLines(r.w, Tail(lines), depth)

SourceParsed(w, lines, depth, p) ==
  IF ~p.ok THEN Raise(w, "ValueError")
  ELSE SourceNext(SourcePipelines(w, p.pipelines, depth), lines, depth)

SourceLine(w, lines, depth, l) ==
  IF l = <<>> \/ startswith(l, <<"#">>) THEN SourceLines(w, Tail(lines), depth)
  ELSE SourceParsed(w, lines, depth, parse(w, l))

\* The loop of lines 335-341 over the lines of the file as they were when it
\* was opened.
SourceLines(w, lines, depth) ==
  IF lines = <<>> THEN Return(w, 0)
  ELSE SourceLine(w, lines, depth, strip(Head(lines)))

\* Lines 343-345: the except clause spans the whole loop, so a
\* FileNotFoundError raised by a sourced line ends the file the same way.
SourceResult(cmd, r) ==
  IF r.kind = "raise" /\ r.exc = "FileNotFoundError"
    THEN Return(eprint(r.w, <<"source: ">> \o cmd.args[2] \o <<": No such file">>), 1)
    ELSE r

SourceOpened(w, cmd, depth, f) ==
  SourceResult(cmd, Closing(IF f.ok THEN SourceLines(f.w, w.files[f.stream.path], depth + 1)
                            ELSE Raise(w, f.exc),
                            {f.stream}))

\* Builtins.cmd_source
cmd_source(w, cmd, depth) ==
  IF Len(cmd.args) < 2 THEN Return(eprint(w, <<"source: missing file argument">>), 1)
  ELSE IF depth >= RecursionLimit THEN Raise(w, "RecursionError")
  ELSE SourceOpened(w, cmd, depth, open(w, cmd.args[2], "r"))

NotBuiltin(w) == [w |-> w, kind |-> "none", status |-> 0, exc |-> ""]

\* The handler of a builtin name.
Handler(w, cmd, name, depth) ==
  IF name = B_cd THEN cmd_cd(w, cmd)
  ELSE IF name = B_pwd THEN cmd_pwd(w, cmd)
  ELSE IF name = B_exit THEN cmd_exit(w, cmd)
  ELSE IF name = B_export THEN cmd_export(w, cmd)
  ELSE IF name = B_echo THEN cmd_echo(w, cmd)
  ELSE IF name = B_history THEN cmd_history(w, cmd)
  ELSE IF name = B_alias THEN cmd_alias(w, cmd)
  ELSE IF name = B_unalias THEN cmd_unalias(w, cmd)
  ELSE IF name = B_env THEN cmd_env(w, cmd)
  ELSE cmd_source(w, cmd, depth)

\* Builtins.execute: the handler's outcome, or kind "none" for None.
Builtins_execute(w, cmd, depth) ==
  IF cmd.args = <<>> \/ cmd.args[1] \notin builtins THEN NotBuiltin(w)
  ELSE Handler(w, cmd, cmd.args[1], depth)

\* Lines 361-432, unless the builtin gave a result.
BuiltinOrStages(w, pipeline, result) ==
  IF result.kind # "none" THEN result ELSE stage_loop(w, pipeline, 1, <<>>, NoPipe, {})

\* execute_pipeline without the builtin dispatch of lines 355-359.
execute_pipeline_spawning(w, pipeline, depth) ==
  IF pipeline = <<>> THEN Return(w, 0) ELSE stage_loop(w, pipeline, 1, <<>>, NoPipe, {})

\* Executor.execute_pipeline
execute_pipeline(w, pipeline, depth) ==
  IF pipeline = <<>> THEN Return(w, 0)
  ELSE BuiltinOrStages(w, pipeline,
                       IF Len(pipeline) = 1 THEN Builtins_execute(w, pipeline[1], depth)
                       ELSE NotBuiltin(w))

(***************************************************************************)
(* The lines the shell is given                                            *)
(***************************************************************************)
\* false | true
L_false_pipe_true == <<"f","a","l","s","e"," ","|"," ","t","r","u","e">>

\* true | false
L_true_pipe_false == <<"t","r","u","e"," ","|"," ","f","a","l","s","e">>

\* false
L_false == <<"f","a","l","s","e">>

\* false ; true
L_false_then_true == <<"f","a","l","s","e"," ",";"," ","t","r","u","e">>

\* echo hello > f.txt
L_echo_to_file == <<"e","c","h","o"," ","h","e","l","l","o"," ",">"," ","f",".","t","x","t">>

\* echo world >> f.txt
L_echo_append == <<"e","c","h","o"," ","w","o","r","l","d"," ",">",">"," ","f",".","t","x","t">>

\* cat < f.txt
L_cat_file == <<"c","a","t"," ","<"," ","f",".","t","x","t">>

\* | echo hello > f.txt
L_extecho_to_file == <<"|"," ","e","c","h","o"," ","h","e","l","l","o"," ",">"," ","f",".","t","x","t">>

\* doesnotexist123
L_nosuch == <<"d","o","e","s","n","o","t","e","x","i","s","t","1","2","3">>

\* true | doesnotexist123
L_pipe_nosuch == <<"t","r","u","e"," ","|"," ","d","o","e","s","n","o","t","e","x","i","s","t","1","2","3">>

\* echo $UNDEFINED_XYZ
L_echo_undefined == <<"e","c","h","o"," ","$","U","N","D","E","F","I","N","E","D","_","X","Y","Z">>

\* export FOO=bar
L_export == <<"e","x","p","o","r","t"," ","F","O","O","=","b","a","r">>

\* echo $FOO ${?}
L_echo_foo == <<"e","c","h","o"," ","$","F","O","O"," ","$","{","?","}">>

\* alias ll='ls -la'
L_alias_ll == <<"a","l","i","a","s"," ","l","l","=","'","l","s"," ","-","l","a","'">>

\* ll /t
L_ll == <<"l","l"," ","/","t">>

\* echo "abc
L_unterminated == <<"e","c","h","o"," ","\"","a","b","c">>

\* exit 3
L_exit_3 == <<"e","x","i","t"," ","3">>

\* exit abc
L_exit_bad == <<"e","x","i","t"," ","a","b","c">>

\* source s.sh
L_source == <<"s","o","u","r","c","e"," ","s",".","s","h">>

\* source x.sh
L_source_exit == <<"s","o","u","r","c","e"," ","x",".","s","h">>

\* cd /t
L_cd_t == <<"c","d"," ","/","t">>

\* true &
L_background == <<"t","r","u","e"," ","&">>

\* & ; true
L_amp_then_true == <<"&"," ",";"," ","t","r","u","e">>

\* cat < f.txt ; true
L_cat_file_then_true == <<"c","a","t"," ","<"," ","f",".","t","x","t"," ",";"," ","t","r","u","e">>

\* make
L_make == <<"m","a","k","e">>

\* cd s.sh
L_cd_file == <<"c","d"," ","s",".","s","h">>

\* source c.sh
L_source_cat == <<"s","o","u","r","c","e"," ","c",".","s","h">>

\*   
L_blank == <<" "," ">>

Menu == {L_false_pipe_true,
         L_true_pipe_false,
         L_false,
         L_false_then_true,
         L_echo_to_file,
         L_echo_append,
         L_cat_file,
         L_extecho_to_file,
         L_nosuch,
         L_pipe_nosuch,
         L_echo_undefined,
         L_export,
         L_echo_foo,
         L_alias_ll,
         L_ll,
         L_unterminated,
         L_exit_3,
         L_exit_bad,
         L_source,
         L_source_exit,
         L_cd_t,
         L_background,
         L_amp_then_true,
         L_cat_file_then_true,
         L_make,
         L_cd_file,
         L_source_cat,
         L_blank}

\* # a script / false /  / echo sourced
F_s_sh == <<<<"#"," ","a"," ","s","c","r","i","p","t">>,
  <<"f","a","l","s","e">>,
  <<>>,
  <<"e","c","h","o"," ","s","o","u","r","c","e","d">>>>

\* exit 4 / echo after
F_x_sh == <<<<"e","x","i","t"," ","4">>,
  <<"e","c","h","o"," ","a","f","t","e","r">>>>

\* cat < nofile.txt / echo after
F_c_sh == <<<<"c","a","t"," ","<"," ","n","o","f","i","l","e",".","t","x","t">>,
  <<"e","c","h","o"," ","a","f","t","e","r">>>>

\* alias ll='ls -la' / false
Rc_alias == <<<<"a","l","i","a","s"," ","l","l","=","'","l","s"," ","-","l","a","'">>,
  <<"f","a","l","s","e">>>>

\* exit 3 ; echo same / export FOO=rc
Rc_exit == <<<<"e","x","i","t"," ","3"," ",";"," ","e","c","h","o"," ","s","a","m","e">>,
  <<"e","x","p","o","r","t"," ","F","O","O","=","r","c">>>>

\* ~/.pyshellrc: absent or empty, or one of two files.
RcFiles == {<<>>, Rc_alias, Rc_exit}

(***************************************************************************)
(* The shell: Shell.__init__ and Shell.run                                 *)
(***************************************************************************)
\* How many lines the shell reads.
MaxLines == 2

VARIABLES
  pc,           \* "startup" (Shell.__init__), "reading", "executing", "terminated",
                \* "blocked" (inside a wait that never returns),
                \* or "parsing" / "parsed" in the parser's own specification
  w,            \* the world: Environment, files, terminal, processes, descriptors
  last_status,  \* Shell.last_status
  line,         \* the line last read
  parsed,       \* what Parser.parse gave for it: [ok, pipelines]
  pending,      \* the pipelines of the line still to run
  rc_lines,     \* the lines of ~/.pyshellrc still to replay
  exit_code,    \* the exit code of the interpreter once terminated
  exit_calls,   \* how many times sys.exit has been called
  last_call     \* the last top-level call of execute_pipeline: its pipeline, the
                \* world it started in and its outcome

vars == <<pc, w, last_status, line, parsed, pending, rc_lines, exit_code, exit_calls, last_call>>

NoCall == [n |-> 0, pipeline |-> <<>>, before |-> <<>>, kind |-> "none", status |-> 0, exc |-> ""]

\* Environment() for a process started in /h with HOME and PWD set, and the
\* files of the machine.
InitWorld ==
  [variables |-> Put(Put(EmptyDict, V_HOME, <<"/","h">>), V_PWD, <<"/","h">>),
   aliases |-> EmptyDict,
   history |-> <<>>,
   cwd |-> <<"/","h">>,
   files |-> Put(Put(Put(EmptyDict, <<"/","h","/","s",".","s","h">>, F_s_sh),
                     <<"/","h","/","x",".","s","h">>, F_x_sh),
                 <<"/","h","/","c",".","s","h">>, F_c_sh),
   out |-> <<>>,
   err |-> <<>>,
   procs |-> <<>>,
   fds |-> {},
   closes |-> <<>>]

Init ==
  /\ pc = "startup"
  /\ w = InitWorld
  /\ last_status = 0
  /\ line = <<>>
  /\ parsed = [ok |-> TRUE, pipelines |-> <<>>]
  /\ pending = <<>>
  /\ rc_lines \in RcFiles
  /\ exit_code = 0
  /\ exit_calls = 0
  /\ last_call = NoCall

Called(call, pipeline, before, r) ==
  [n |-> call.n + 1, pipeline |-> pipeline, before |-> before,
   kind |-> r.kind, status |-> r.status, exc |-> r.exc]

\* for pipeline in pipelines: execute_pipeline(pipeline, env), to the first
\* call that does not return: [r, call], the outcome and the last call.
RECURSIVE RunPipelines(_, _, _)

RunNext(world, pipelines, call, r) ==
  IF r.kind # "return" THEN [r |-> r, call |-> Called(call, Head(pipelines), world, r)]
  ELSE RunPipelines(r.w, Tail(pipelines), Called(call, Head(pipelines), world, r))

RunPipelines(world, pipelines, call) ==
  IF pipelines = <<>> THEN [r |-> Return(world, 0), call |-> call]
  ELSE RunNext(world, pipelines, call, execute_pipeline(world, Head(pipelines), 0))

\* Whether the rc replay's bare except clause (line 454) catches an outcome.
rc_swallows(kind) == kind \in {"raise", "exit"}

\* Lines 452-455: the pipelines of an rc line have run.
StartupRan(run) ==
  /\ w' = run.r.w
  /\ last_call' = run.call
  /\ exit_calls' = exit_calls + (IF run.r.kind = "exit" THEN 1 ELSE 0)
  /\ IF run.r.kind = "return" \/ rc_swallows(run.r.kind)
       THEN UNCHANGED <<pc, exit_code>>
       ELSE pc' = "blocked" /\ UNCHANGED exit_code

\* Line 451: the rc line is parsed; a parse error is passed over too.
StartupParsed(l, p) ==
  /\ line' = l
  /\ parsed' = p
  /\ UNCHANGED <<last_status, pending>>
  /\ IF ~p.ok THEN UNCHANGED <<pc, w, exit_code, exit_calls, last_call>>
     ELSE StartupRan(RunPipelines(w, p.pipelines, last_call))

StartupStripped(l) ==
  IF l = <<>> \/ startswith(l, <<"#">>)
    THEN UNCHANGED <<pc, w, last_status, line, parsed, pending, exit_code, exit_calls, last_call>>
    ELSE StartupParsed(l, parse(w, l))

\* One line of the rc file, lines 447-455: parsed and run inside a try whose
\* bare except passes.
StartupLine ==
  /\ pc = "startup"
  /\ rc_lines # <<>>
  /\ rc_lines' = Tail(rc_lines)
  /\ StartupStripped(strip(Head(rc_lines)))

\* Shell.__init__ returns and Shell.run prints its two lines (527-528) and
\* enters its loop.
StartupDone ==
  /\ pc = "startup"
  /\ rc_lines = <<>>
  /\ pc' = "reading"
  /\ w' = print(print(w, <<"PyShell v1.0 - A Python Shell">>), <<"Type 'exit' to quit", "\n">>)
  /\ UNCHANGED <<last_status, line, parsed, pending, rc_lines, exit_code, exit_calls, last_call>>

\* Whether Shell.run stores the status into "?" when the statement raised
\* (the except clause of line 559 does not).
stores_status_on_error == FALSE

Reported(reported) ==
  IF stores_status_on_error THEN set(reported, V_STATUS, IntToStr(1)) ELSE reported

\* An except clause that reports nothing.
on_exception_silent(world, exc) == world

\* except Exception as e (lines 559-561)
on_exception(world, exc) == Reported(eprint(world, <<"Error: ">> \o <<exc>>))

\* Lines 545-551 for the line just recorded in the history.
LineParsed(recorded, l, p) ==
  /\ line' = l
  /\ parsed' = p
  /\ UNCHANGED <<rc_lines, exit_code, exit_calls, last_call>>
  /\ IF ~p.ok
       THEN /\ w' = on_exception(recorded, "ValueError")
            /\ last_status' = 1
            /\ pending' = <<>>
            /\ pc' = "reading"
     ELSE IF p.pipelines = <<>>
       THEN /\ w' = set(recorded, V_STATUS, IntToStr(last_status))
            /\ UNCHANGED <<last_status, pending, pc>>
     ELSE /\ w' = recorded
          /\ pending' = p.pipelines
          /\ pc' = "executing"
          /\ UNCHANGED last_status

\* A loop that parses every line in the environment the shell started with.
LineRecorded_initial(recorded, l) == LineParsed(recorded, l, parse(InitWorld, l))

LineRecorded(recorded, l) == LineParsed(recorded, l, parse(recorded, l))

\* input() gives a line (lines 536-545): a blank line is dropped, any other
\* is recorded and parsed.  A line with no pipeline runs the loop body to its
\* end at once.
ReadLineFrom(lines) ==
  /\ pc = "reading"
  /\ Len(w.history) < MaxLines
  /\ \E l \in lines :
       IF strip(l) = <<>> THEN UNCHANGED vars
       ELSE LineRecorded([w EXCEPT !.history = Append(@, l)], l)

ReadLine == ReadLineFrom(Menu)

\* A loop that goes on with the next pipeline whatever the outcome.
remaining_all(r, rest) == Tail(rest)

\* The pipelines of the line still to run after one call: the for loop of
\* line 547 goes on after a return; an exception or exit leaves the loop, a
\* wait that never returns leaves it where it is.
remaining(r, rest) ==
  IF r.kind = "return" THEN Tail(rest) ELSE IF r.kind = "block" THEN rest ELSE <<>>

\* What the loop body does with the outcome of one call of execute_pipeline.
ExecOutcome(r) ==
  /\ last_call' = Called(last_call, Head(pending), w, r)
  /\ UNCHANGED <<line, parsed, rc_lines>>
  /\ pending' = remaining(r, pending)
  /\ IF r.kind = "return"
       THEN /\ last_status' = r.status
            /\ UNCHANGED <<exit_code, exit_calls>>
            /\ IF Tail(pending) = <<>>
                 THEN w' = set(r.w, V_STATUS, IntToStr(r.status)) /\ pc' = "reading"
                 ELSE w' = r.w /\ pc' = "executing"
     ELSE IF r.kind = "raise"
       THEN /\ w' = on_exception(r.w, r.exc)
            /\ last_status' = 1
            /\ pc' = "reading"
            /\ UNCHANGED <<exit_code, exit_calls>>
     ELSE IF r.kind = "block"
       THEN /\ w' = r.w
            /\ pc' = "blocked"
            /\ UNCHANGED <<last_status, exit_code, exit_calls>>
     ELSE /\ w' = r.w
          /\ pc' = "terminated"
          /\ exit_code' = r.status
          /\ exit_calls' = exit_calls + 1
          /\ UNCHANGED last_status

\* One pass of the loop of line 547, and what follows the loop after its last
\* pass (line 551); a raise goes to the except clause, sys.exit ends the
\* interpreter.
ExecPipeline ==
  /\ pc = "executing"
  /\ ExecOutcome(execute_pipeline(w, Head(pending), 0))

\* input() raises EOFError (lines 553-555): the loop ends, the process exits 0.
EndOfInput ==
  /\ pc = "reading"
  /\ pc' = "terminated"
  /\ exit_code' = 0
  /\ w' = print(w, <<>>)
  /\ UNCHANGED <<last_status, line, parsed, pending, rc_lines, exit_calls, last_call>>

\* A child that nobody waits for (a backgrounded one) runs to its end.
ChildExit ==
  /\ pc \in {"reading", "executing"}
  /\ \E pid \in 1..Len(w.procs) :
       /\ ~w.procs[pid].done
       /\ ~blocks_on_stderr(w.procs[pid])
       /\ w' = run_child(w, pid, <<>>).w
  /\ UNCHANGED <<pc, last_status, line, parsed, pending, rc_lines, exit_code, exit_calls, last_call>>

\* The user presses the interrupt key.  Line 531 sets SIGINT to SIG_IGN, so
\* the signal is discarded: no KeyboardInterrupt is raised, the except clause
\* of lines 556-558 is never entered, and input() or wait() goes on.
Interrupt ==
  /\ pc \in {"reading", "executing"}
  /\ UNCHANGED vars

Next ==
  \/ StartupLine
  \/ StartupDone
  \/ ReadLine
  \/ ExecPipeline
  \/ EndOfInput
  \/ Interrupt
  \/ ChildExit

Spec == Init /\ [][Next]_vars

(***************************************************************************)
(* The same shell, without an rc file, given lines whose statements change *)
(* what a later statement would parse to.                                  *)
(***************************************************************************)
\* alias ll='ls -la' ; ll /t
L_alias_then_ll == <<"a","l","i","a","s"," ","l","l","=","'","l","s"," ","-","l","a","'"," ",";"," ","l","l"," ","/","t">>

\* unalias ll ; ll /t
L_unalias_then_ll == <<"u","n","a","l","i","a","s"," ","l","l"," ",";"," ","l","l"," ","/","t">>

\* cd /t ; echo *
L_cd_then_glob == <<"c","d"," ","/","t"," ",";"," ","e","c","h","o"," ","*">>

\* echo *
L_glob == <<"e","c","h","o"," ","*">>

\* export FOO=bar ; ls $FOO ~
L_export_then_use == <<"e","x","p","o","r","t"," ","F","O","O","=","b","a","r"," ",";"," ","l","s"," ","$","F","O","O"," ","~">>

OrderMenu == {L_alias_then_ll, L_unalias_then_ll, L_ll, L_cd_then_glob, L_glob, L_export_then_use}

InitOrder ==
  /\ pc = "startup"
  /\ w = InitWorld
  /\ last_status = 0
  /\ line = <<>>
  /\ parsed = [ok |-> TRUE, pipelines |-> <<>>]
  /\ pending = <<>>
  /\ rc_lines = <<>>
  /\ exit_code = 0
  /\ exit_calls = 0
  /\ last_call = NoCall

ReadOrderLine == ReadLineFrom(OrderMenu)

NextOrder == StartupDone \/ ReadOrderLine \/ ExecPipeline \/ EndOfInput

SpecOrder == InitOrder /\ [][NextOrder]_vars

(***************************************************************************)
(* Properties of the shell loop and the executor                           *)
(***************************************************************************)
Last(seq) == seq[Len(seq)]

\* A command with arguments and neither a redirection nor "&".
Plain(cmd) ==
  /\ cmd.args # <<>>
  /\ cmd.input_file = None
  /\ cmd.output_file = None
  /\ ~cmd.background

\* A pipeline that is not a single builtin: its commands go to the stage loop.
Staged(pipeline) ==
  /\ pipeline # <<>>
  /\ \A i \in 1..Len(pipeline) : Plain(pipeline[i])
  /\ Len(pipeline) = 1 => pipeline[1].args[1] \notin builtins

\* C1: a foreground pipeline of external commands that all exist returns the
\* exit status of its final stage, whatever the earlier stages returned
\* (false | true gives 0, true | false gives 1).
C1_FinalStageStatus ==
  (/\ last_call.n > 0
   /\ Staged(last_call.pipeline)
   /\ \A i \in 1..Len(last_call.pipeline) : last_call.pipeline[i].args[1] \in ProgramsOnPath)
  => /\ last_call.kind = "return"
     /\ last_call.status = ProgramStatus(Last(last_call.pipeline).args)

\* hello
S_hello == <<"h","e","l","l","o">>

\* C2: once a statement whose last command has "> file" has executed, the
\* command's output is in the file and not on the shell's own standard output:
\* after echo hello > f.txt the file holds exactly the line hello.
C2_RedirectRoundTrip ==
  (/\ last_call.n > 0
   /\ last_call.kind = "return"
   /\ last_call.pipeline # <<>>
   /\ Last(last_call.pipeline).args = <<B_echo, S_hello>>
   /\ Last(last_call.pipeline).output_file # None
   /\ ~Last(last_call.pipeline).append_output)
  => /\ abspath(last_call.before, Last(last_call.pipeline).output_file) \in DOMAIN w.files
     /\ w.files[abspath(last_call.before, Last(last_call.pipeline).output_file)] = <<S_hello>>
     /\ w.out = last_call.before.out

\* C3: whenever a pipeline has finished, the variable "?" is the decimal exit
\* status of the most recently executed pipeline (1 for a statement that ended
\* with an exception caught by the shell loop), also between the pipelines of
\* one line.
C3_StatusVariable ==
  (/\ last_call.n > 0
   /\ pc \in {"reading", "executing"}
   /\ w.history # <<>>
   /\ last_call.kind \in {"return", "raise"})
  => /\ V_STATUS \in DOMAIN w.variables
     /\ w.variables[V_STATUS] = IntToStr(IF last_call.kind = "return" THEN last_call.status ELSE 1)

\* The stages before the first whose program is not on the path.
FirstMissing(pipeline) ==
  CHOOSE i \in 1..Len(pipeline) :
    /\ pipeline[i].args[1] \notin ProgramsOnPath
    /\ \A j \in 1..(i - 1) : pipeline[j].args[1] \in ProgramsOnPath

\* C4: when the program of a stage (first, middle or last) cannot be found,
\* execute_pipeline reports "<name>: command not found" on the error stream,
\* returns 127 and spawns none of the remaining stages.
C4_CommandNotFound ==
  (/\ last_call.n > 0
   /\ Staged(last_call.pipeline)
   /\ \E i \in 1..Len(last_call.pipeline) : last_call.pipeline[i].args[1] \notin ProgramsOnPath)
  => /\ last_call.kind = "return"
     /\ last_call.status = 127
     /\ \E k \in 1..Len(w.err) :
          w.err[k] = last_call.pipeline[FirstMissing(last_call.pipeline)].args[1]
                     \o <<": command not found">>
     /\ Len(w.procs) = Len(last_call.before.procs) + FirstMissing(last_call.pipeline) - 1

\* C9: Parser.parse raises no error on malformed quoting: every line the
\* shell has read, one with an unterminated quote too, parsed into pipelines
\* that the loop then runs.
C9_UnterminatedQuoteTolerated ==
  line # <<>> => parsed.ok /\ parsed.pipelines # <<>>

\* C10: once the builtin exit has been executed (on an interactive line, in a
\* sourced file or during the replay of the rc file) the interpreter has
\* terminated, with the code exit was given.
C10_ExitTerminates ==
  exit_calls > 0 => pc = "terminated" /\ exit_code = last_call.status

\* The last call was of a pipeline of exactly one command, a builtin.
SingleBuiltin ==
  /\ last_call.n > 0
  /\ Len(last_call.pipeline) = 1
  /\ last_call.pipeline[1].args # <<>>
  /\ last_call.pipeline[1].args[1] \in builtins

\* C5 as stated: for a pipeline of exactly one command whose argv[0] is a
\* builtin, execute_pipeline spawns no external process, and the status it
\* returns is the handler's.
C5_BuiltinNeverSpawns ==
  SingleBuiltin
  => /\ Len(w.procs) = Len(last_call.before.procs)
     /\ last_call.kind = "return"
          => last_call.status = Builtins_execute(last_call.before, last_call.pipeline[1], 0).status

\* C5 amended: for a pipeline of exactly one command whose argv[0] is a
\* builtin, execute_pipeline hands the command to its handler and to no
\* external process: it ends as the handler ends (the same status when the
\* handler returns one), no process is spawned with the command's argv, and
\* none at all unless the builtin is source, whose file's commands run through
\* execute_pipeline in their turn.
C5_BuiltinPrecedence ==
  SingleBuiltin
  => /\ last_call.kind = Builtins_execute(last_call.before, last_call.pipeline[1], 0).kind
     /\ last_call.status = Builtins_execute(last_call.before, last_call.pipeline[1], 0).status
     /\ \A k \in (Len(last_call.before.procs) + 1)..Len(w.procs) :
          /\ w.procs[k].argv # last_call.pipeline[1].args
          /\ last_call.pipeline[1].args[1] = B_source

\* echo, a builtin and a program on the path, has run as the builtin: it
\* printed, returned 0 and no process exists.
C5_Witness ==
  /\ SingleBuiltin
  /\ last_call.pipeline[1].args[1] = B_echo
  /\ B_echo \in ProgramsOnPath
  /\ last_call.kind = "return"
  /\ Len(w.out) > Len(last_call.before.out)
  /\ w.procs = <<>>

\* A variable name: [A-Za-z_][A-Za-z0-9_]*
IsName(s) == s # <<>> /\ s[1] \in NameStart /\ \A i \in 1..Len(s) : s[i] \in NameChar

\* The last call was the builtin echo with the one argument $NAME, NAME not
\* defined when it ran.
EchoUndefined ==
  /\ SingleBuiltin
  /\ last_call.kind = "return"
  /\ last_call.pipeline[1].args[1] = B_echo
  /\ Len(last_call.pipeline[1].args) = 2
  /\ Len(last_call.pipeline[1].args[2]) > 1
  /\ last_call.pipeline[1].args[2][1] = "$"
  /\ IsName(Tail(last_call.pipeline[1].args[2]))
  /\ Tail(last_call.pipeline[1].args[2]) \notin DOMAIN last_call.before.variables

\* What the statement text prints in world v: the lines its pipelines add to
\* the terminal.
NewLines(v, after) == SubSeq(after.out, Len(v.out) + 1, Len(after.out))

Printed(v, text) == NewLines(v, RunPipelines(v, parse(v, text).pipelines, NoCall).r.w)

\* Names to try as undefined ones: UNDEFINED_XYZ, FOO, _a1
ProbeNames == {<<"U","N","D","E","F","I","N","E","D","_","X","Y","Z">>, <<"F","O","O">>,
               <<"_","a","1">>}

\* C6 as stated: for a variable name that is not defined, echo $NAME prints
\* the empty string.
C6_UndefinedPrintsEmpty ==
  EchoUndefined => w.out[Len(last_call.before.out) + 1] = <<>>

\* C6 amended: for a variable name that is not defined, echo $NAME, run by
\* the builtin echo, prints the reference $NAME itself, unchanged: so did the
\* last call, and so would the statement do at any prompt.
C6_UndefinedPrintsReference ==
  /\ EchoUndefined => w.out[Len(last_call.before.out) + 1] = last_call.pipeline[1].args[2]
  /\ \A name \in ProbeNames :
       pc = "reading" /\ name \notin DOMAIN w.variables /\ B_echo \notin DOMAIN w.aliases
       => Printed(w, B_echo \o <<" ", "$">> \o name) = <<<<"$">> \o name>>

\* echo $UNDEFINED_XYZ has run and printed $UNDEFINED_XYZ.
C6_Witness ==
  /\ EchoUndefined
  /\ line = L_echo_undefined
  /\ w.out[Len(last_call.before.out) + 1] = <<"$">> \o Tail(last_call.pipeline[1].args[2])

(***************************************************************************)
(* The loop's handling of exceptions and its transitions                   *)
(***************************************************************************)
\* The step records a line that does not parse (shlex raises ValueError).
ParseRaised == pc = "reading" /\ w'.history # w.history /\ ~parsed'.ok

\* The step is a call of execute_pipeline from the loop that raised.
CallRaised == pc = "executing" /\ last_call'.n # last_call.n /\ last_call'.kind = "raise"

\* The loop's except clause has run: the exception is the last line of the
\* error stream, the status is 1, and the loop reads again.
CaughtAndReported(exc) ==
  /\ pc' = "reading"
  /\ last_status' = 1
  /\ Len(w'.err) > Len(w.err)
  /\ Last(w'.err) = <<"Error: ", exc>>
  /\ exit_calls' = exit_calls
  /\ pending' = <<>>

\* C11: an exception other than the exit raised while a line is parsed or
\* one of its pipelines runs is caught by the loop: it is reported on the
\* error stream, the last status becomes 1 and the loop reads the next line;
\* and the interpreter ends while executing only through exit.
C11_ExceptionsCaught ==
  [][/\ ParseRaised => CaughtAndReported("ValueError")
     /\ CallRaised => CaughtAndReported(last_call'.exc)
     /\ pc = "executing" /\ pc' = "terminated" => last_call'.kind = "exit"]_vars

\* A pipeline of a line read at the prompt raised, and the loop reads again.
C11_Witness ==
  /\ pc = "reading"
  /\ last_call.kind = "raise"
  /\ last_call.before.history # <<>>
  /\ last_status = 1
  /\ w.err # <<>>
  /\ Last(w.err) = <<"Error: ", last_call.exc>>

\* The transitions out of the reading state: end of input ends the loop with
\* exit code 0 and without a call of exit; nothing else leaves reading but a
\* line that is not blank and has pipelines, all of which are then pending.
FromReading ==
  /\ pc = "reading" => pc' \in {"reading", "executing", "terminated"}
  /\ pc = "reading" /\ pc' = "terminated"
       => exit_code' = 0 /\ exit_calls' = exit_calls /\ last_call' = last_call
  /\ pc = "reading" /\ pc' = "executing"
       => /\ strip(line') # <<>>
          /\ w'.history = Append(w.history, line')
          /\ parsed'.ok
          /\ pending' = parsed'.pipelines
          /\ pending' # <<>>

\* While executing, a step that calls execute_pipeline runs the first pending
\* pipeline, and the loop stays in executing only with the rest pending.
WhileExecuting ==
  /\ pc = "executing" /\ pc' # "executing"
       => last_call'.n = last_call.n + 1 /\ last_call'.pipeline = Head(pending)
  /\ pc = "executing" /\ pc' = "executing" /\ pending' # pending
       => /\ last_call'.n = last_call.n + 1
          /\ last_call'.pipeline = Head(pending)
          /\ last_call'.kind = "return"
          /\ pending' = Tail(pending)

\* C12 as stated: the loop's transitions; executing leads back to reading
\* after all pipelines parsed from the line have run, that is with the call
\* of the last of them.
C12_BackAfterAllPipelines ==
  [][/\ FromReading
     /\ WhileExecuting
     /\ pc = "executing" /\ pc' = "reading" => Len(pending) = 1 /\ pending' = <<>>]_vars

\* C12 amended: the loop's transitions; executing leads back to reading
\* after all pipelines parsed from the line have run, or as soon as one of
\* them raises an exception, and then the pipelines after it are not run.
C12_BackAfterAllOrRaise ==
  [][/\ FromReading
     /\ WhileExecuting
     /\ pc = "executing" /\ pc' = "reading"
          => /\ pending' = <<>>
             /\ Len(pending) = 1 \/ last_call'.kind = "raise"
             /\ Len(pending) > 1 => w'.procs = w.procs /\ w'.out = w.out]_vars

\* The first of the two pipelines of a line could not open its input file:
\* the loop reads again and the second pipeline has not run.
C12_Witness ==
  /\ pc = "reading"
  /\ parsed.ok
  /\ Len(parsed.pipelines) = 2
  /\ last_call.n > 0
  /\ last_call.before.history # <<>>
  /\ last_call.before.history = w.history
  /\ last_call.kind = "raise"
  /\ last_call.exc = "FileNotFoundError"
  /\ last_call.pipeline = parsed.pipelines[1]
  /\ parsed.pipelines[2] # parsed.pipelines[1]
  /\ pending = <<>>

(***************************************************************************)
(* Descriptors, streams and processes of the executor                      *)
(***************************************************************************)
\* C13: whenever the loop is back in the reading state, no pipe end and no
\* redirection file that execute_pipeline opened is still open in the shell,
\* whichever way the call ended (return, 127 or 1, or an exception).
C13_DescriptorsClosed == pc = "reading" => w.fds = {}

\* The shell is inside proc.wait() for a child that cannot exit: the child is
\* blocked writing to the pipe that is its standard error, which only the
\* shell could read and never does.  No step of the shell follows.
StuckWaiting ==
  /\ pc = "blocked"
  /\ \E pid \in 1..Len(w.procs) :
       ~w.procs[pid].done /\ ~w.procs[pid].waited /\ blocks_on_stderr(w.procs[pid])

\* C14: after a line is received the shell comes back to the reading state
\* (or terminates through exit): it is never stuck for ever in a wait because
\* it left a stage blocked on a pipe.  Every program of the model reads its
\* input to the end, writes finitely much and exits once its output is taken.
C14_NeverStuckWaiting == ~StuckWaiting

\* C15: every external stage of a foreground pipeline is given the shell's
\* own error stream, inherited and not captured into a pipe; only a stage of
\* a backgrounded pipeline has an error stream that is not inherited.
C15_StderrInherited ==
  \A pid \in 1..Len(w.procs) : ~w.procs[pid].background => w.procs[pid].stderr = "inherit"

\* The notice of line 430 for a process.
JobNotice(pid) == <<"[">> \o IntToStr(pid) \o <<"] started in background">>

\* C16: whenever the last command of a pipeline has its background flag set,
\* execute_pipeline returns status 0 having waited for no process and having
\* printed the job-started notice that names the process of the final stage;
\* so for a builtin and for an empty argv as well.
C16_BackgroundNotice ==
  (/\ last_call.n > 0
   /\ last_call.pipeline # <<>>
   /\ Last(last_call.pipeline).background)
  => /\ last_call.kind = "return"
     /\ last_call.status = 0
     /\ Len(w.out) > Len(last_call.before.out)
     /\ \E pid \in (Len(last_call.before.procs) + 1)..Len(w.procs) :
          /\ w.out[Len(last_call.before.out) + 1] = JobNotice(pid)
          /\ ~w.procs[pid].waited

\* The process of stage i of n is wired as a stage of a pipeline: a file only
\* as the input of the first stage or the output of the last, the read end of
\* a pipe as the input of every later stage, the write end of a pipe as the
\* output of every stage but the last.
StageWired(proc, cmd, i, n) ==
  /\ proc.argv = cmd.args
  /\ proc.stdin.kind = "file" => i = 1 /\ cmd.input_file # None
  /\ proc.stdout.kind = "file" => i = n /\ cmd.output_file # None
  /\ i > 1 => proc.stdin.kind = "int"
  /\ i < n => proc.stdout.kind = "int"
  /\ i = 1 /\ cmd.input_file # None => proc.stdin.kind = "file"
  /\ i = n /\ cmd.output_file # None => proc.stdout.kind = "file"

\* C17: in every pipeline of existing external commands the executor runs,
\* each stage is a process wired by position: only stage 0 may read a file and
\* only the last stage may write one, stage i>0 reads the read end of the
\* pipe made for stage i-1, and every stage but the last writes the write end
\* of the pipe made for it.
C17_StagesWired ==
  (/\ last_call.n > 0
   /\ Staged(last_call.pipeline)
   /\ \A i \in 1..Len(last_call.pipeline) : last_call.pipeline[i].args[1] \in ProgramsOnPath)
  => /\ Len(w.procs) >= Len(last_call.before.procs) + Len(last_call.pipeline)
     /\ \A i \in 1..Len(last_call.pipeline) :
          StageWired(w.procs[Len(last_call.before.procs) + i], last_call.pipeline[i],
                     i, Len(last_call.pipeline))

\* How many pipelines of the line have been run.
RunOfLine == Len(parsed.pipelines) - Len(pending)

\* C18: every process of a foreground pipeline is waited on before
\* execute_pipeline returns: whenever the loop reads a line or is between two
\* pipelines of a line, every process spawned for a foreground pipeline has
\* exited and has been waited on, and the pipeline that ran last has
\* returned before the next one of the line starts.
C18_NoOverlap ==
  pc \in {"reading", "executing"}
  => /\ \A pid \in 1..Len(w.procs) :
          ~w.procs[pid].background => w.procs[pid].done /\ w.procs[pid].waited
     /\ pc = "executing" /\ RunOfLine > 0
          => /\ last_call.kind = "return"
             /\ last_call.pipeline = parsed.pipelines[RunOfLine]

\* A foreground pipeline of a line read at the prompt spawned its process,
\* returned, and the process has been waited on; the next pipeline of the
\* line is about to start.
C18_Witness ==
  /\ pc = "executing"
  /\ RunOfLine = 1
  /\ last_call.kind = "return"
  /\ Staged(last_call.pipeline)
  /\ Len(w.procs) = Len(last_call.before.procs) + 1
  /\ ~w.procs[Len(w.procs)].background
  /\ w.procs[Len(w.procs)].waited

(***************************************************************************)
(* The builtins source and cd                                              *)
(***************************************************************************)
\* The last call was the statement source PATH.
SourceCall ==
  /\ last_call.n > 0
  /\ Len(last_call.pipeline) = 1
  /\ Len(last_call.pipeline[1].args) = 2
  /\ last_call.pipeline[1].args[1] = B_source

\* Whether the file could be opened when source PATH was called.
SourceOpens == open(last_call.before, last_call.pipeline[1].args[2], "r").ok

\* C19: source PATH returns status 1 exactly when the file cannot be opened;
\* when it can be opened its lines are run to the last one, a failure inside
\* a sourced line stopping neither the lines after it nor the shell loop, so
\* source returns status 0 unless a line exits.
C19_SourceRunsAllLines ==
  SourceCall
  => /\ (last_call.kind = "return" /\ last_call.status = 1) <=> ~SourceOpens
     /\ SourceOpens => last_call.kind \in {"return", "exit"}

\* The last call was the statement cd PATH.
CdCall ==
  /\ last_call.n > 0
  /\ Len(last_call.pipeline) = 1
  /\ Len(last_call.pipeline[1].args) = 2
  /\ last_call.pipeline[1].args[1] = B_cd

\* Whether PATH was a directory that may be entered when cd PATH was called.
CdCanEnter ==
  /\ isdir(last_call.before, last_call.pipeline[1].args[2])
  /\ abspath(last_call.before, last_call.pipeline[1].args[2]) \notin NoEntryDirs

\* C20: PWD is the working directory; a cd to a path that cannot be entered
\* (missing, not permitted, or not a directory) returns status 1 and leaves
\* the working directory and PWD as they were, and a cd that succeeds returns
\* status 0 with PWD the new working directory.
C20_CdKeepsPwd ==
  /\ get(w, V_PWD, None) = w.cwd
  /\ CdCall
       => /\ last_call.kind = "return"
          /\ last_call.status = (IF CdCanEnter THEN 0 ELSE 1)
          /\ ~CdCanEnter => w.cwd = last_call.before.cwd
          /\ CdCanEnter => w.cwd = abspath(last_call.before, last_call.pipeline[1].args[2])

(***************************************************************************)
(* Parsing of a line and execution of its statements                       *)
(***************************************************************************)
\* The step receives a line that is not blank.
Received == pc = "reading" /\ w'.history # w.history

\* C21: all statements of a line are parsed, expansions included, in the
\* environment as it is when the line is received, before the first of them
\* executes: what is executed afterwards are those pipelines, in order and
\* unchanged, whatever the earlier statements of the line did to the aliases
\* or the working directory; the next line is parsed in the environment the
\* statements have left.
C21_ParsedBeforeExecuted ==
  [][/\ Received
          => /\ parsed' = parse(w, line')
             /\ parsed'.ok /\ parsed'.pipelines # <<>>
                  => pc' = "executing" /\ pending' = parsed'.pipelines
     /\ pc = "executing"
          => /\ parsed' = parsed
             /\ pending = SubSeq(parsed.pipelines, RunOfLine + 1, Len(parsed.pipelines))
             /\ last_call'.n # last_call.n
                  => /\ last_call'.pipeline = parsed.pipelines[RunOfLine + 1]
                     /\ last_call'.before = w]_vars

\* The second statement of a line has run with the argv parsed when the line
\* was received, and parsing the line in the environment the first statement
\* had left would have given it another argv.
C21_Witness ==
  /\ last_call.n > 0
  /\ last_call.before.history = w.history
  /\ parsed.ok
  /\ Len(parsed.pipelines) = 2
  /\ pending = <<>>
  /\ last_call.pipeline = parsed.pipelines[2]
  /\ parse(last_call.before, line).pipelines[2] # last_call.pipeline

(***************************************************************************)
(* Closing of pipe descriptors                                             *)
(***************************************************************************)
\* The descriptors os.close was called on during the last call, in order.
ClosedByLastCall == SubSeq(w.closes, Len(last_call.before.closes) + 1, Len(w.closes))

MaxLen == 4

\* The characters the two splitters tell apart, a letter and a blank.
QuoteAlphabet == {";", "|", "\"", "'", "a", " "}

\* echo "a;b" ; echo c
L_quoted_semicolon == <<"e","c","h","o"," ","\"","a",";","b","\""," ",";"," ","e","c","h","o"," ","c">>

\* echo 'a|b' | cat
L_quoted_pipe == <<"e","c","h","o"," ","'","a","|","b","'"," ","|"," ","c","a","t">>

SplitLines ==
  UNION {[1..n -> QuoteAlphabet] : n \in 0..MaxLen} \cup {L_quoted_semicolon, L_quoted_pipe}

\* Parser.parse(line, env)
Parse ==
  /\ pc = "parsing"
  /\ parsed' = parse(w, line)
  /\ pc' = "parsed"
  /\ UNCHANGED <<w, last_status, line, pending, rc_lines, exit_code, exit_calls, last_call>>

InitSplit ==
  /\ pc = "parsing"
  /\ w = InitWorld
  /\ last_status = 0
  /\ line \in SplitLines
  /\ parsed = [ok |-> TRUE, pipelines |-> <<>>]
  /\ pending = <<>>
  /\ rc_lines = <<>>
  /\ exit_code = 0
  /\ exit_calls = 0
  /\ last_call = NoCall

NextSplit == Parse

SpecSplit == InitSplit /\ [][NextSplit]_vars

\* ll, ls, cat
A_ll == <<"l","l">>
A_ls == <<"l","s">>
A_cat == <<"c","a","t">>

AliasNames == {A_ll, A_ls}

\* Replacement texts: ls -la / ll -a / ls * / ls > o / the empty text
AliasTexts == {<<"l","s"," ","-","l","a">>, <<"l","l"," ","-","a">>, <<"l","s"," ","*">>,
               <<"l","s"," ",">"," ","o">>, <<>>}

\* What follows the command name on a line: nothing / " /t" / " -a b"
ArgTexts == {<<>>, <<" ","/","t">>, <<" ","-","a"," ","b">>}

AliasUseLines == {n \o a : n \in AliasNames \cup {A_cat}, a \in ArgTexts}

\* alias NAME='R'
AliasStatement(name, text) ==
  B_alias \o <<" ">> \o name \o <<"=", "'">> \o text \o <<"'">>

\* The statement alias NAME='R' is parsed and run.
DefineAlias ==
  /\ pc = "parsing"
  /\ \E name \in AliasNames, text \in AliasTexts :
       w' = RunPipelines(w, parse(w, AliasStatement(name, text)).pipelines, NoCall).r.w
  /\ UNCHANGED <<pc, last_status, line, parsed, pending, rc_lines, exit_code, exit_calls, last_call>>

InitAlias ==
  /\ pc = "parsing"
  /\ w = InitWorld
  /\ last_status = 0
  /\ line \in AliasUseLines
  /\ parsed = [ok |-> TRUE, pipelines |-> <<>>]
  /\ pending = <<>>
  /\ rc_lines = <<>>
  /\ exit_code = 0
  /\ exit_calls = 0
  /\ last_call = NoCall

NextAlias == DefineAlias \/ Parse

SpecAlias == InitAlias /\ [][NextAlias]_vars

(***************************************************************************)
(* Properties of the parser                                                *)
(***************************************************************************)
\* Quoted regions, told from the text alone.  The character at j opens a
\* quote when it is a quote character that no earlier quote covers; an
\* opening quote covers what follows it up to and including the next
\* occurrence of the same character, or up to the end of the text when there
\* is none.
RECURSIVE Covered(_, _)

OpensQuote(text, j) == text[j] \in Quotes /\ ~Covered(text, j)

Covered(text, i) ==
  \E j \in 1..(i - 1) :
    /\ \A k \in (j + 1)..(i - 1) : text[k] # text[j]
    /\ OpensQuote(text, j)

\* Where delim stands outside quotes.
Separators(text, delim) == {i \in 1..Len(text) : text[i] = delim /\ ~Covered(text, i)}

\* The text cut at the positions seps, from position from on; nothing is
\* kept of an empty remainder.
RECURSIVE Cut(_, _, _)

CutNext(text, from, seps, at) ==
  <<SubSeq(text, from, at - 1)>> \o Cut(text, at + 1, seps)

Cut(text, from, seps) ==
  IF {i \in seps : i >= from} = {}
    THEN (IF from <= Len(text) THEN <<SubSeq(text, from, Len(text))>> ELSE <<>>)
    ELSE CutNext(text, from, seps,
                 CHOOSE i \in seps : i >= from /\ \A k \in seps : k >= from => i <= k)

\* The statements Parser.parse keeps: the stripped pieces that are not empty.
RECURSIVE Kept(_)
Kept(pieces) ==
  IF pieces = <<>> THEN <<>>
  ELSE IF strip(Head(pieces)) = <<>> THEN Kept(Tail(pieces))
  ELSE <<strip(Head(pieces))>> \o Kept(Tail(pieces))

\* How many "|" the statements have outside quotes, all together.
RECURSIVE PipeCount(_)
PipeCount(statements) ==
  IF statements = <<>> THEN 0
  ELSE Cardinality(Separators(Head(statements), "|")) + PipeCount(Tail(statements))

\* Each statement is cut at its "|" outside quotes, and these are the "|"
\* outside the quotes of the whole line.
PipesCutOutsideQuotes(statements) ==
  /\ \A n \in 1..Len(statements) :
       split_by_pipe(statements[n]) = Cut(statements[n], 1, Separators(statements[n], "|"))
  /\ PipeCount(statements) = Cardinality(Separators(line, "|"))

StagesPerStatement(statements) ==
  /\ Len(parsed.pipelines) = Len(statements)
  /\ \A n \in 1..Len(statements) :
       Len(parsed.pipelines[n]) = Len(Cut(statements[n], 1, Separators(statements[n], "|")))

\* C8: a ";" or "|" between an opening quote and its matching closing quote
\* (or after a quote that is never closed) is no separator, and every other
\* ";" or "|" is one: the line is cut into statements exactly at the ";"
\* outside quotes and each statement into commands exactly at the "|" outside
\* quotes, so echo "a;b" ; echo c parses into two pipelines, the first with
\* argv [echo, a;b].
C8_QuoteAwareSplitting ==
  /\ split_by_semicolon(line) = Cut(line, 1, Separators(line, ";"))
  /\ PipesCutOutsideQuotes(Kept(Cut(line, 1, Separators(line, ";"))))
  /\ pc = "parsed" /\ parsed.ok => StagesPerStatement(Kept(Cut(line, 1, Separators(line, ";"))))
  /\ pc = "parsed" /\ line = L_quoted_semicolon
     => /\ parsed.ok
        /\ Len(parsed.pipelines) = 2
        /\ Len(parsed.pipelines[1]) = 1
        /\ parsed.pipelines[1][1].args = <<B_echo, <<"a", ";", "b">>>>

\* echo "a;b" ; echo c has been parsed: two pipelines, and the ";" between
\* the quotes is in the first one's argument.
C8_Witness ==
  /\ pc = "parsed"
  /\ line = L_quoted_semicolon
  /\ Len(parsed.pipelines) = 2
  /\ parsed.pipelines[1][1].args[2] = <<"a", ";", "b">>
  /\ Separators(line, ";") = {12}

\* The first word of a line and what follows it.
FirstWord(text) ==
  IF IndexFrom(text, " ", 1) = 0 THEN text ELSE SubSeq(text, 1, IndexFrom(text, " ", 1) - 1)

AfterFirstWord(text) == SubSeq(text, Len(FirstWord(text)) + 1, Len(text))

\* The line has been parsed into one command and its first word is an alias.
AliasUsed ==
  /\ pc = "parsed"
  /\ parsed.ok
  /\ FirstWord(line) \in DOMAIN w.aliases
  /\ Len(parsed.pipelines) = 1
  /\ Len(parsed.pipelines[1]) = 1

\* The command the line parses into when no alias is defined.
Unaliased(text) == parse([w EXCEPT !.aliases = EmptyDict], text).pipelines[1][1]

\* A replacement text of plain words: no character that the parser expands
\* or reads as a redirection, a separator, a quote or an escape.
PlainWords(text) ==
  \A i \in 1..Len(text) :
    text[i] \notin {"$", "~", "*", "?", "[", "<", ">", "&", ";", "|", "\"", "'", "\\"}

\* C7 as stated: with the alias NAME defined as R, NAME args parses into the
\* argv that R args parses into.
C7_SameAsParsingReplacement ==
  AliasUsed /\ strip(w.aliases[FirstWord(line)]) # <<>>
  => parsed.pipelines[1][1].args
       = parse(w, w.aliases[FirstWord(line)] \o AfterFirstWord(line)).pipelines[1][1].args

\* C7 amended: with the alias NAME defined as R, NAME args parses into the
\* tokens of R followed by args (after alias ll='ls -la', ll /t gives
\* [ls, -la, /t]); the tokens of R are taken as they are, not alias-expanded
\* again (so R may start with NAME) nor expanded or read as redirections, and
\* the command is that of parsing R args whenever R is made of plain words,
\* at least one, and does not start with an alias name.
C7_SinglePassAlias ==
  AliasUsed
  => /\ parsed.pipelines[1][1].args
          = shlex_split(w.aliases[FirstWord(line)]).tokens \o Tail(Unaliased(line).args)
     /\ parsed.pipelines[1][1] = [Unaliased(line) EXCEPT !.args = parsed.pipelines[1][1].args]
     /\ (/\ PlainWords(w.aliases[FirstWord(line)])
         /\ strip(w.aliases[FirstWord(line)]) # <<>>
         /\ FirstWord(w.aliases[FirstWord(line)]) \notin DOMAIN w.aliases)
        => parsed.pipelines[1][1]
             = parse(w, w.aliases[FirstWord(line)] \o AfterFirstWord(line)).pipelines[1][1]

\* After alias ll='ls -la' and an alias for ls as well, ll /t has been parsed
\* into [ls, -la, /t].
C7_Witness ==
  /\ AliasUsed
  /\ line = A_ll \o <<" ", "/", "t">>
  /\ w.aliases[A_ll] = <<"l","s"," ","-","l","a">>
  /\ A_ls \in DOMAIN w.aliases
  /\ parsed.pipelines[1][1].args = <<A_ls, <<"-","l","a">>, <<"/","t">>>>

====
